---- MODULE Spec2Model ----
(***************************************************************************)
(* Model of the Scryfall NLP backend (src/server.js): the per-license      *)
(* rate limiter, the cached set catalog, the set resolver and the          *)
(* POST /api/convert pipeline; and of handleConvert in the extension's     *)
(* content script and service worker, which call it.                       *)
(*                                                                         *)
(* The server is a single node.js process.  A handler runs without         *)
(* interruption up to its next await on external I/O, so every action of   *)
(* this model is one such synchronous span.  Awaits on promises that are   *)
(* already settled resume in the same microtask drain, before any other    *)
(* request's I/O callback or timer can run, and are not interleaving       *)
(* points.                                                                 *)
(*                                                                         *)
(* Strings the code inspects character by character (queries, set names,   *)
(* completion text) are tuples of one-character strings.  Opaque strings   *)
(* (license keys, messages) are TLA+ strings.  Times are milliseconds.     *)
(***************************************************************************)
EXTENDS Integers, Sequences, FiniteSets, TLC

\* ---------------------------------------------------------------- bounds
\* Number of /api/convert requests of one behaviour.
MaxReqs == 3
\* The clock stops advancing at this many milliseconds.
MaxTime == 2500
\* The same bound for the specification of the whole route.
MaxConvertTime == 1000
\* Number of /stripe/webhook requests of one behaviour, and of /api/convert
\* requests beside them.
MaxHooks == 2
MaxLicenseReqs == 1
\* Length of the strings given to norm.
MaxLen == 4
\* Number of requests and end of the clock for the resolver's specification.
MaxResolveReqs == 2
MaxResolveTime == 1000
\* Number of handleConvert invocations of the content script, and of those
\* whose message reaches the server.
MaxCalls == 6
MaxTrialCalls == 2
\* Number of handleConvert invocations in progress at once.
MaxOverlap == 2

\* ------------------------------------------------------------- constants
\* RATE_WINDOW_MS and RATE_MAX_REQUESTS are read from the environment
\* (defaults 3600000 and 60); the model runs the configuration
\* RATE_WINDOW_MS=1000, RATE_MAX_REQUESTS=2.
WINDOW_MS == 1000
MAX_REQUESTS == 2
\* 24h in the source, scaled to the model's clock.
SETS_TTL_MS == 1000
MsPerSecond == 1000
\* Free conversions of the content script.
FREE_SEARCH_LIMIT == 5
\* The clock is observed every half second.
ClockSteps == {500}

\* ---------------------------------------------------------------- values
NoKey == ""
NoRec == [count |-> -1, resetAt |-> -1]
NoHeaders == [limit |-> -1, remaining |-> -1, reset |-> -1]
NoBody == [kind |-> "none"]
NoData == <<>>

Max(a, b) == IF a >= b THEN a ELSE b

\* Math.ceil(ms / 1000) for an integer ms (negative ms round towards zero).
CeilSeconds(ms) ==
  IF ms >= 0 THEN (ms + MsPerSecond - 1) \div MsPerSecond
  ELSE -((-ms) \div MsPerSecond)


\* ---------------------------------------------------------------- strings
LowerChars == <<"a","b","c","d","e","f","g","h","i","j","k","l","m",
                "n","o","p","q","r","s","t","u","v","w","x","y","z">>
UpperChars == <<"A","B","C","D","E","F","G","H","I","J","K","L","M",
                "N","O","P","Q","R","S","T","U","V","W","X","Y","Z">>
DigitChars == <<"0","1","2","3","4","5","6","7","8","9">>

Range(f) == {f[i] : i \in DOMAIN f}
LowerSet == Range(LowerChars)
UpperSet == Range(UpperChars)
DigitSet == Range(DigitChars)
\* [A-Za-z0-9], [a-z0-9], \w and \s of the regular expressions.
AlnumSet == LowerSet \cup UpperSet \cup DigitSet
LowerAlnumSet == LowerSet \cup DigitSet
WordSet == AlnumSet \cup {"_"}
SpaceSet == {" ", "\t", "\n"}

SetMin(S) == CHOOSE x \in S : \A y \in S : x <= y
SetMax(S) == CHOOSE x \in S : \A y \in S : x >= y

\* String.prototype.toLowerCase
toLowerChar(c) ==
  IF c \in UpperSet
    THEN LowerChars[CHOOSE i \in 1..26 : UpperChars[i] = c]
    ELSE c
toLowerCase(s) == [i \in 1..Len(s) |-> toLowerChar(s[i])]

\* String.prototype.trim
trim(s) ==
  LET keep == {i \in 1..Len(s) : s[i] \notin SpaceSet}
  IN  IF keep = {} THEN <<>> ELSE SubSeq(s, SetMin(keep), SetMax(keep))

\* s.replace(/[^a-z0-9]+/g, ' '): every maximal run of other characters
\* becomes one space.
ReplaceNonAlnumRuns(s) ==
  LET F[i \in 0..Len(s)] ==
        IF i = 0 THEN <<>>
        ELSE LET done == F[i-1]
             IN  IF s[i] \in LowerAlnumSet THEN Append(done, s[i])
                 ELSE IF i > 1 /\ s[i-1] \notin LowerAlnumSet THEN done
                 ELSE Append(done, " ")
  IN  F[Len(s)]

\* Mutant of norm: the result loses its last character.
normCut(s) ==
  LET n == trim(ReplaceNonAlnumRuns(toLowerCase(s)))
  IN  SubSeq(n, 1, Len(n) - 1)

\* Mutant of norm: every other character becomes a space of its own.
normNoCollapse(s) ==
  LET l == toLowerCase(s)
  IN  trim([i \in 1..Len(s) |-> IF l[i] \in LowerAlnumSet THEN l[i] ELSE " "])

norm(s) == trim(ReplaceNonAlnumRuns(toLowerCase(s)))

\* a.includes(b)
includes(a, b) ==
  \E i \in 0..(Len(a) - Len(b)) : SubSeq(a, i + 1, i + Len(b)) = b

\* s.split(/\s+/): the pieces between maximal runs of whitespace; the empty
\* string splits into one empty piece.
split(s) ==
  LET F[i \in 0..Len(s)] ==
        IF i = 0 THEN << <<>> >>
        ELSE LET done == F[i-1]
             IN  IF s[i] \notin SpaceSet
                   THEN [done EXCEPT ![Len(done)] = Append(@, s[i])]
                 ELSE IF i > 1 /\ s[i-1] \in SpaceSet THEN done
                 ELSE Append(done, <<>>)
  IN  F[Len(s)]

\* pieces.join(' ')
join(pieces) ==
  LET F[i \in 0..Len(pieces)] ==
        IF i = 0 THEN <<>>
        ELSE IF i = 1 THEN pieces[1]
        ELSE F[i-1] \o <<" ">> \o pieces[i]
  IN  F[Len(pieces)]

\* a.localeCompare(b) > 0 for the date-like strings of releasedAt (digits
\* and hyphens, the hyphen sorting first).
CharRank(c) ==
  IF c \in DigitSet THEN CHOOSE i \in 1..10 : DigitChars[i] = c ELSE 0
StrGreater(a, b) ==
  \E i \in 1..Len(a) :
     /\ \A j \in 1..(i-1) : j <= Len(b) /\ a[j] = b[j]
     /\ (i > Len(b) \/ CharRank(a[i]) > CharRank(b[i]))

\* ----------------------------------------------- explicit code extraction
\* First index at or after i that holds no whitespace (Len(s)+1 if none).
SkipSpaces(s, i) ==
  SetMin({j \in i..(Len(s) + 1) : j > Len(s) \/ s[j] \notin SpaceSet})
\* First index at or after i that holds no [A-Za-z0-9].
AlnumRunEnd(s, i) ==
  SetMin({j \in i..(Len(s) + 1) : j > Len(s) \/ s[j] \notin AlnumSet})

\* /\(\s*([A-Za-z0-9]{2,5})\s*\)/ matching at index i; the classes \s,
\* [A-Za-z0-9] and ')' are disjoint, so the group is the whole run.
ParenMatchAt(s, i) ==
  /\ s[i] = "("
  /\ LET j == SkipSpaces(s, i + 1)
         e == AlnumRunEnd(s, j)
         k == SkipSpaces(s, e)
     IN  /\ e - j \in 2..5
         /\ k <= Len(s)
         /\ s[k] = ")"
ParenGroup(s, i) ==
  LET j == SkipSpaces(s, i + 1) IN SubSeq(s, j, AlnumRunEnd(s, j) - 1)

\* Start of the group of /\b(?:set|code)\s*[:=]?\s*([A-Za-z0-9]{2,5})\b/i
\* for the label kw matching at index i.
LabelGroupStart(s, i, kw) ==
  LET j1 == SkipSpaces(s, i + Len(kw))
      j2 == IF j1 <= Len(s) /\ s[j1] \in {":", "="} THEN j1 + 1 ELSE j1
  IN  SkipSpaces(s, j2)
LabelMatchAt(s, i, kw) ==
  /\ i + Len(kw) - 1 <= Len(s)
  /\ toLowerCase(SubSeq(s, i, i + Len(kw) - 1)) = kw
  /\ (i = 1 \/ s[i-1] \notin WordSet)
  /\ LET j == LabelGroupStart(s, i, kw)
         e == AlnumRunEnd(s, j)
     IN  /\ e - j \in 2..5
         /\ (e > Len(s) \/ s[e] \notin WordSet)
LabelGroup(s, i, kw) ==
  LET j == LabelGroupStart(s, i, kw) IN SubSeq(s, j, AlnumRunEnd(s, j) - 1)

LabelSet == <<"s","e","t">>
LabelCode == <<"c","o","d","e">>

\* explicitMatch?.[1] of the route: the group of the leftmost match of the
\* first pattern, else of the second, else nothing (the empty string).
explicitCode(query) ==
  LET paren == {i \in 1..Len(query) : ParenMatchAt(query, i)}
      label == {i \in 1..Len(query) :
                  LabelMatchAt(query, i, LabelSet) \/ LabelMatchAt(query, i, LabelCode)}
  IN  IF paren # {} THEN ParenGroup(query, SetMin(paren))
      ELSE IF label # {}
        THEN LET i == SetMin(label)
             IN  IF LabelMatchAt(query, i, LabelSet)
                   THEN LabelGroup(query, i, LabelSet)
                   ELSE LabelGroup(query, i, LabelCode)
      ELSE <<>>

\* ---------------------------------------------------------- sets resolver
STOP_WORDS == { <<"t","h","e">>, <<"s","e","t">>,
                <<"e","d","i","t","i","o","n">>,
                <<"m","a","s","t","e","r","s">>,
                <<"a","n","t","h","o","l","o","g","y">>,
                <<"c","o","l","l","e","c","t","i","o","n">>,
                <<"s","e","r","i","e","s">> }

\* .replace(/\b(the|set|...)\b/g, ' ').replace(/\s+/g, ' ').trim() of a
\* normalized string (tokens of [a-z0-9] separated by single spaces): a
\* word-bounded match is a whole token, so the stop-word tokens drop out.
tighten(s) ==
  join(SelectSeq(split(s), LAMBDA w : w \notin STOP_WORDS))

\* Mutant of scoreMatch: shared tokens do not count.
scoreMatchSubstringOnly(q, nameNorm) ==
  IF includes(q, nameNorm) THEN 100 ELSE 0

scoreMatch(q, nameNorm) ==
  IF includes(q, nameNorm) THEN 100
  ELSE LET qw == Range(split(q))
           nw == Range(split(nameNorm))
       IN  Cardinality({w \in nw : w \in qw})

ALIAS_DATE == <<"9","9","9","9","-","9","9","-","9","9">>
ZERO_DATE == <<"0","0","0","0","-","0","0","-","0","0">>

aliases ==
  << [code |-> <<"c","m","m">>,
      name |-> <<"c","o","m","m","a","n","d","e","r"," ","m","a","s","t","e","r","s">>],
     [code |-> <<"c","m","a">>,
      name |-> <<"c","o","m","m","a","n","d","e","r"," ","a","n","t","h","o","l","o","g","y">>],
     [code |-> <<"m","m","2">>,
      name |-> <<"m","o","d","e","r","n"," ","m","a","s","t","e","r","s"," ","2","0","1","5">>],
     [code |-> <<"m","h","2">>,
      name |-> <<"m","o","d","e","r","n"," ","h","o","r","i","z","o","n","s"," ","2">>],
     [code |-> <<"2","x","m">>,
      name |-> <<"d","o","u","b","l","e"," ","m","a","s","t","e","r","s">>],
     [code |-> <<"d","o","m">>,
      name |-> <<"d","o","m","i","n","a","r","i","a">>],
     [code |-> <<"d","m","u">>,
      name |-> <<"d","o","m","i","n","a","r","i","a"," ","u","n","i","t","e","d">>] >>

\* x || dflt for strings: the empty string is falsy.
OrElse(x, dflt) == IF x = <<>> THEN dflt ELSE x

\* Mutant of BuildSets: the aliases are not appended.
BuildSetsNoAliases(data) ==
  [i \in 1..Len(data) |->
     [code |-> toLowerCase(data[i].code),
      name |-> data[i].name,
      nameNorm |-> norm(data[i].name),
      releasedAt |-> OrElse(data[i].released_at, ZERO_DATE)]]

\* The catalog fetchAllSets builds from the entities of one fetch response.
BuildSets(data) ==
  [i \in 1..Len(data) |->
     [code |-> toLowerCase(data[i].code),
      name |-> data[i].name,
      nameNorm |-> norm(data[i].name),
      releasedAt |-> OrElse(data[i].released_at, ZERO_DATE)]]
  \o
  [i \in 1..Len(aliases) |->
     [code |-> aliases[i].code,
      name |-> aliases[i].name,
      nameNorm |-> norm(aliases[i].name),
      releasedAt |-> ALIAS_DATE]]

\* Mutant of SortsBefore: the score is not looked at.
SortsBeforeByDate(a, b) == StrGreater(a.releasedAt, b.releasedAt)

\* The comparator of the final sort: a is ordered strictly before b.
SortsBefore(a, b) ==
  \/ a.score > b.score
  \/ a.score = b.score /\ StrGreater(a.releasedAt, b.releasedAt)

\* Array.prototype.sort is stable: x goes after every element it does not
\* strictly precede.
InsertSorted(sorted, x) ==
  LET later == {i \in 1..Len(sorted) : SortsBefore(x, sorted[i])}
      at == IF later = {} THEN Len(sorted) + 1 ELSE SetMin(later)
  IN  SubSeq(sorted, 1, at - 1) \o <<x>> \o SubSeq(sorted, at, Len(sorted))
StableSort(list) ==
  LET F[i \in 0..Len(list)] ==
        IF i = 0 THEN <<>> ELSE InsertSorted(F[i-1], list[i])
  IN  F[Len(list)]

\* Mutant of Scored: entities with score 0 are kept.
ScoredKeepAll(q, sets) ==
  LET qTight == tighten(q)
  IN  [i \in 1..Len(sets) |->
         [code |-> sets[i].code, name |-> sets[i].name,
          nameNorm |-> sets[i].nameNorm, releasedAt |-> sets[i].releasedAt,
          score |-> Max(scoreMatch(q, sets[i].nameNorm),
                        scoreMatch(qTight, tighten(sets[i].nameNorm)))]]

\* The entities of sets with score >= 1, in catalog order, with their score.
Scored(q, sets) ==
  LET qTight == tighten(q)
      withScore ==
        [i \in 1..Len(sets) |->
           [code |-> sets[i].code, name |-> sets[i].name,
            nameNorm |-> sets[i].nameNorm, releasedAt |-> sets[i].releasedAt,
            score |-> Max(scoreMatch(q, sets[i].nameNorm),
                          scoreMatch(qTight, tighten(sets[i].nameNorm)))]]
  IN  SelectSeq(withScore, LAMBDA s : s.score >= 1)

\* Mutant of BestByCode: a code keeps its first scored entity.
BestByCodeKeepFirst(scored) ==
  LET first == SelectSeq([i \in 1..Len(scored) |-> i],
                         LAMBDA i : \A j \in 1..(i - 1) :
                                      scored[j].code # scored[i].code)
  IN  [n \in 1..Len(first) |-> scored[first[n]]]

\* Mutant of BestByCode: every scored entity is kept.
BestByCodeKeepAll(scored) == scored

\* The values of the bestByCode map, in insertion order: a code keeps the
\* position of its first entity and the value of its first best score.
BestByCode(scored) ==
  LET F[i \in 0..Len(scored)] ==
        IF i = 0 THEN <<>>
        ELSE LET best == F[i-1]
                 prev == {j \in 1..Len(best) : best[j].code = scored[i].code}
             IN  IF prev = {} THEN Append(best, scored[i])
                 ELSE LET j == CHOOSE x \in prev : TRUE
                      IN  IF scored[i].score > best[j].score
                            THEN [best EXCEPT ![j] = scored[i]]
                            ELSE best
  IN  F[Len(scored)]

\* Mutant of Candidates: the sorted list is returned whole.
CandidatesUnlimited(query, sets, k) ==
  LET q == norm(query)
  IN  IF q = <<>> THEN <<>> ELSE StableSort(BestByCode(Scored(q, sets)))

\* getSetCandidatesFromQuery once fetchAllSets has returned sets.
Candidates(query, sets, k) ==
  LET q == norm(query)
  IN  IF q = <<>> THEN <<>>
      ELSE LET sorted == StableSort(BestByCode(Scored(q, sets)))
           IN  SubSeq(sorted, 1, IF Len(sorted) < k THEN Len(sorted) ELSE k)

\* ------------------------------------------------------------------ state
VARIABLES
  now,            \* Date.now()
  usage,          \* the usage Map: license key -> {count, resetAt} or NoRec
  windowStart,    \* history: when each stored usage record was created
  SETS_CACHE,     \* {data, fetchedAt}; data = <<>> stands for null
  VALID_LICENSES, \* the Set of valid license keys
  EMAIL_TO_LICENSE, \* the Map email -> latest license; "" where unset
  hooks,          \* the /stripe/webhook requests: position, event, response
  provisions,     \* history: the hooks that provisioned a license, in order
  probes,         \* the validate-license and by-session requests
  input,          \* the argument of a pure function under test
  output,         \* its results, in order of application
  storage,        \* chrome.storage.sync: licenseKey and searchCount
  calls,          \* the handleConvert invocations of the content script
  reqs            \* the /api/convert requests: position, locals, response

vars ==
  <<now, usage, windowStart, SETS_CACHE, VALID_LICENSES, EMAIL_TO_LICENSE,
    hooks, provisions, probes, input, output, storage, calls, reqs>>
licenseVars == <<VALID_LICENSES, EMAIL_TO_LICENSE, hooks, provisions, probes>>
pureVars == <<input, output>>
clientVars == <<storage, calls>>

TEST_KEY_1 == "TEST-1234-5678-ABCD"
TEST_KEY_2 == "TEST-9999-8888-XXXX"
BOGUS_KEY == "NOT-A-LICENSE"
\* What the content script sends for a user without a stored license.
FREE_TRIAL == "FREE_TRIAL"
\* req.body.licenseKey of a request; NoKey is a missing (falsy) key.
KeyInputs == {NoKey, TEST_KEY_1, TEST_KEY_2, BOGUS_KEY}
\* The licenses generateLicense can return (it draws them at random).
GeneratedLicenses == {"SCRY-AAAA-BBBB-CCCC", "SCRY-DDDD-EEEE-FFFF"}
AllKeys == (KeyInputs \ {NoKey}) \cup GeneratedLicenses \cup {FREE_TRIAL}

Reqs == 1..MaxReqs
Calls == 1..MaxCalls
TrialCalls == 1..MaxTrialCalls
Hooks == 1..MaxHooks

\* customer_details.email of a checkout session; <<>> is a missing email.
NoEmail == <<>>
EmailInputs == {NoEmail, <<"a","@","x">>, <<"A","@","x">>}
KnownEmails == {toLowerCase(e) : e \in EmailInputs \ {NoEmail}}
NoLicense == ""

\* A webhook request: pc is the handler's position; verified, type and
\* email are what constructEvent made of the request; license is the one
\* generated for it; status and body are the response.
IdleHook ==
  [pc |-> "idle", verified |-> FALSE, type |-> "", email |-> NoEmail,
   license |-> NoLicense, status |-> 0, body |-> NoBody]

\* The latest validate-license or by-session request: route and arg (the
\* license key or the session id) are the request, pc its position, email
\* the payer email of the session, status, body and headers the response.
NoProbe ==
  [pc |-> "idle", route |-> "", arg |-> "", email |-> NoEmail, status |-> 0,
   body |-> NoBody, headers |-> NoHeaders]

\* No pure function has been applied yet.
NoOutput == <<>>

SYSTEM_PROMPT == [kind |-> "base", codes |-> <<>>, names |-> <<>>]

\* A request: pc is the handler's position; licenseKey and query are
\* req.body; limiter, limitedAt and rec record the call of
\* rateLimitPerLicense (its outcome, its now, its rec) and stored what
\* usage.get(key) returned to it; status, body and
\* headers are the response; system, provider, endpoint and fetchNow are
\* locals of the route and of fetchAllSets; failure names the upstream call
\* that failed; the two counters count the upstream calls issued.
IdleReq ==
  [pc |-> "idle", licenseKey |-> NoKey, query |-> <<>>,
   limiter |-> "none", limitedAt |-> -1, rec |-> NoRec, stored |-> NoRec,
   status |-> 0, body |-> NoBody, headers |-> NoHeaders,
   system |-> SYSTEM_PROMPT, provider |-> "", endpoint |-> "",
   fetchNow |-> -1, failure |-> "",
   catalogFetches |-> 0, completionCalls |-> 0]

\* An invocation of handleConvert: pc is its position (the await it is
\* suspended at), query, licenseKey and count are its locals, req is the
\* number of its message among those sent, outcome what it showed.
IdleCall ==
  [pc |-> "idle", query |-> <<>>, licenseKey |-> NoKey, count |-> 0,
   req |-> 0, outcome |-> ""]

\* The extension's storage of a new installation.
NoStorage == [licenseKey |-> NoKey, searchCount |-> 0]

InitServer ==
  /\ now = 0
  /\ calls = [c \in Calls |-> IdleCall]
  /\ usage = [k \in AllKeys |-> NoRec]
  /\ windowStart = [k \in AllKeys |-> -1]
  /\ SETS_CACHE = [data |-> NoData, fetchedAt |-> 0]
  /\ VALID_LICENSES = {TEST_KEY_1, TEST_KEY_2}
  /\ EMAIL_TO_LICENSE = [e \in KnownEmails |-> NoLicense]
  /\ hooks = [h \in Hooks |-> IdleHook]
  /\ provisions = <<>>
  /\ probes = NoProbe
  /\ reqs = [r \in Reqs |-> IdleReq]

Init ==
  /\ InitServer
  /\ input = <<>>
  /\ output = NoOutput
  /\ storage = NoStorage

\* ------------------------------------------------------------ rate limit
\* The headers setRateHeaders leaves on the response at time t.
setRateHeaders(remaining, resetAt, t) ==
  [limit |-> MAX_REQUESTS,
   remaining |-> Max(0, remaining),
   reset |-> Max(0, CeilSeconds(resetAt - t))]

JsonError(msg) == [kind |-> "json", error |-> msg]

\* Mutant of requireLicense: only the presence of a key is checked.
requireLicensePresentOnly(key, valid, t) ==
  IF key = NoKey
    THEN [next |-> FALSE, status |-> 401,
          body |-> JsonError("License key required"),
          headers |-> setRateHeaders(MAX_REQUESTS, t + WINDOW_MS, t)]
  ELSE [next |-> TRUE, status |-> 0, body |-> NoBody, headers |-> NoHeaders]

\* Mutant of requireLicense: the rejections carry no rate headers.
requireLicenseNoHeaders(key, valid, t) ==
  IF key = NoKey
    THEN [next |-> FALSE, status |-> 401,
          body |-> JsonError("License key required"), headers |-> NoHeaders]
  ELSE IF key \notin valid
    THEN [next |-> FALSE, status |-> 403,
          body |-> JsonError("Invalid license key"), headers |-> NoHeaders]
  ELSE [next |-> TRUE, status |-> 0, body |-> NoBody, headers |-> NoHeaders]

\* requireLicense: either calls next() or answers 401 / 403.
requireLicense(key, valid, t) ==
  IF key = NoKey
    THEN [next |-> FALSE, status |-> 401,
          body |-> JsonError("License key required"),
          headers |-> setRateHeaders(MAX_REQUESTS, t + WINDOW_MS, t)]
  ELSE IF key \notin valid
    THEN [next |-> FALSE, status |-> 403,
          body |-> JsonError("Invalid license key"),
          headers |-> setRateHeaders(MAX_REQUESTS, t + WINDOW_MS, t)]
  ELSE [next |-> TRUE, status |-> 0, body |-> NoBody, headers |-> NoHeaders]

\* Mutants of WindowOver: the window still open at resetAt itself; the
\* comparison inverted.
WindowOverLate(stored, t) == stored = NoRec \/ t > stored.resetAt
WindowOverInverted(stored, t) == stored = NoRec \/ t <= stored.resetAt

\* !rec || now >= rec.resetAt: no window record, or an expired one.
WindowOver(stored, t) == stored = NoRec \/ t >= stored.resetAt

\* Mutant of QuotaSpent: off by one.
QuotaSpentOffByOne(rec) == rec.count > MAX_REQUESTS

\* rec.count >= MAX_REQUESTS
QuotaSpent(rec) == rec.count >= MAX_REQUESTS

\* Mutant of Counted: the increment is lost.
CountedLost(rec) == rec

\* rec.count += 1
Counted(rec) == [count |-> rec.count + 1, resetAt |-> rec.resetAt]

\* Mutant of AfterReject: a rejected call is counted and stored too.
AfterRejectCounted(u, key, rec) ==
  [u EXCEPT ![key] = [count |-> rec.count + 1, resetAt |-> rec.resetAt]]

\* The usage table after the 429 branch: it stores nothing.
AfterReject(u, key, rec) == u

\* rateLimitPerLicense on the usage table u at time t: either calls next()
\* or answers 401 / 429; rec is its local record, usage the table it leaves,
\* created tells whether it stored a fresh window record.
rateLimitPerLicense(key, u, t) ==
  IF key = NoKey
    THEN [next |-> FALSE, status |-> 401,
          body |-> JsonError("License key required"),
          headers |-> setRateHeaders(MAX_REQUESTS, t + WINDOW_MS, t),
          rec |-> NoRec, usage |-> u, created |-> FALSE]
  ELSE
    LET fresh == WindowOver(u[key], t)
        rec == IF fresh THEN [count |-> 0, resetAt |-> t + WINDOW_MS] ELSE u[key]
    IN  IF QuotaSpent(rec)
          THEN [next |-> FALSE, status |-> 429,
                body |-> [kind |-> "json",
                          error |-> "Rate limit exceeded. Try again later.",
                          limit |-> MAX_REQUESTS,
                          resetSeconds |-> CeilSeconds(rec.resetAt - t)],
                headers |-> setRateHeaders(0, rec.resetAt, t),
                rec |-> rec, usage |-> AfterReject(u, key, rec), created |-> FALSE]
          ELSE [next |-> TRUE, status |-> 0, body |-> NoBody,
                headers |-> setRateHeaders(MAX_REQUESTS - Counted(rec).count,
                                           rec.resetAt, t),
                rec |-> Counted(rec),
                usage |-> [u EXCEPT ![key] = Counted(rec)],
                created |-> fresh]

\* Mutant of SweepDeletes: every record goes.
SweepDeletesAlways(v, t) == TRUE

\* Mutant of SweepDeletes: a record goes as soon as its window has ended.
SweepDeletesEnded(v, t) == t > v.resetAt

\* The test of the cleanup on a stored record v at time t.
SweepDeletes(v, t) == t > v.resetAt + WINDOW_MS

\* The periodic cleanup of setInterval.
Sweep ==
  /\ usage' = [k \in AllKeys |->
                 IF usage[k] # NoRec /\ SweepDeletes(usage[k], now)
                   THEN NoRec ELSE usage[k]]
  /\ windowStart' = [k \in AllKeys |-> IF usage'[k] = NoRec THEN -1 ELSE windowStart[k]]
  /\ UNCHANGED <<now, SETS_CACHE, licenseVars, pureVars, clientVars, reqs>>

\* Time passes, up to limit.
TickUpTo(limit) ==
  /\ \E d \in ClockSteps : now + d <= limit /\ now' = now + d
  /\ UNCHANGED <<usage, windowStart, SETS_CACHE, licenseVars, pureVars, clientVars, reqs>>

Tick == TickUpTo(MaxTime)

\* ------------------------------------------------------- POST /api/convert
\* req.body.query: missing, with an explicit code, naming a set.
QueryMissing == <<>>
QueryExplicit == <<"(","C","M","M",")">>
QueryNamed == <<"D","o","m","i","n","a","r","i","a">>
QueryInputs == {QueryMissing, QueryExplicit, QueryNamed}

\* More queries for the resolver: a labelled code, punctuation only, a word
\* that only the tightened names contain, the name of one set, no set at
\* all, a sentence naming a set.
QueryLabel == <<"s","e","t",":"," ","C","M","M">>
QueryPunct == <<"?","!">>
QueryTight == <<"c","o","m","m","a","n","d","e","r","s">>
QueryOne == <<"h","o","r","i","z","o","n","s">>
QueryNone == <<"b","o","l","t">>
QueryElves ==
  <<"l","e","g","e","n","d","a","r","y"," ","e","l","v","e","s"," ",
    "f","r","o","m"," ","D","o","m","i","n","a","r","i","a">>
\* Words of seven aliases: more candidates than the limit.
QueryMany ==
  <<"c","o","m","m","a","n","d","e","r"," ","m","o","d","e","r","n"," ",
    "d","o","u","b","l","e"," ","d","o","m","i","n","a","r","i","a">>
ResolveQueries ==
  {QueryExplicit, QueryLabel, QueryPunct, QueryTight, QueryOne, QueryNone,
   QueryElves, QueryMany}
AllQueries == QueryInputs \cup ResolveQueries

\* Whether process.env.ANTHROPIC_API_KEY is set.
ANTHROPIC_API_KEY == TRUE

\* json.data of a successful response of api.scryfall.com/sets.
RawSets ==
  { << [code |-> <<"D","O","M">>,
        name |-> <<"D","o","m","i","n","a","r","i","a">>,
        released_at |-> <<"2","0","1","8","-","0","4","-","2","7">>] >> }

\* A second response of the same endpoint, with other entities.
DomData ==
  << [code |-> <<"D","O","M">>,
      name |-> <<"D","o","m","i","n","a","r","i","a">>,
      released_at |-> <<"2","0","1","8","-","0","4","-","2","7">>] >>
MastersData ==
  << [code |-> <<"C","M","M">>,
      name |-> <<"C","o","m","m","a","n","d","e","r"," ","M","a","s","t","e","r","s">>,
      released_at |-> <<"2","0","2","3","-","0","8","-","0","4">>],
     [code |-> <<"M","H","2">>,
      name |-> <<"M","o","d","e","r","n"," ","H","o","r","i","z","o","n","s"," ","2">>,
      released_at |-> <<>>] >>
ResolveRawSets == {DomData, MastersData}
\* A response whose entities share their codes with aliases of other names:
\* for a query naming Dominaria the fetched DOM scores below its alias and
\* the fetched DMU above its alias.
PromosData ==
  << [code |-> <<"D","O","M">>,
      name |-> <<"D","o","m","i","n","a","r","i","a"," ","P","r","o","m","o","s">>,
      released_at |-> <<"2","0","1","8","-","0","4","-","2","7">>],
     [code |-> <<"D","M","U">>,
      name |-> <<"D","o","m","i","n","a","r","i","a">>,
      released_at |-> <<"2","0","2","2","-","0","9","-","0","9">>] >>
DedupRawSets == {PromosData, MastersData}
AllRawSets == RawSets \cup ResolveRawSets \cup DedupRawSets

\* The text a completion service returns.
CompletionTexts == { <<" ","s",":","d","o","m","\n">> }
\* error.message of a failed completion call: the non-ok response the route
\* throws on, or a rejected fetch.
NOT_OK_MESSAGE == "AI service temporarily unavailable"
CompletionErrors == {NOT_OK_MESSAGE, "fetch failed"}

\* The pure functions of the route, tabulated once over the inputs of the
\* model: the explicit code of a query, the catalog built from a fetch
\* response, the candidates of a query in a catalog, the trimmed result.
ExplicitCodeOf == [q \in AllQueries |-> explicitCode(q)]
SetsOf == [data \in AllRawSets |-> BuildSets(data)]
Catalogs == {SetsOf[data] : data \in AllRawSets}
CandidatesOf == [q \in AllQueries, sets \in Catalogs |-> Candidates(q, sets, 6)]
ResultOf == [text \in CompletionTexts |-> trim(text)]

\* Mutant of ExplicitSystem: the code is used as written.
ExplicitSystemVerbatim(code) ==
  [kind |-> "explicit", codes |-> <<code>>, names |-> <<>>]

\* dynamicSystem for an explicit code.
ExplicitSystem(code) ==
  [kind |-> "explicit", codes |-> <<toLowerCase(code)>>, names |-> <<>>]

\* Mutant of CandidateSystem: the first candidate is taken as resolved.
CandidateSystemFirstOnly(candidates) ==
  IF Len(candidates) >= 1
    THEN [kind |-> "resolved",
          codes |-> <<candidates[1].code>>, names |-> <<candidates[1].name>>]
  ELSE SYSTEM_PROMPT

\* dynamicSystem for the candidates of the resolver.
CandidateSystem(candidates) ==
  IF Len(candidates) = 1
    THEN [kind |-> "resolved",
          codes |-> <<candidates[1].code>>, names |-> <<candidates[1].name>>]
  ELSE IF Len(candidates) > 1
    THEN [kind |-> "candidates",
          codes |-> [i \in 1..Len(candidates) |-> candidates[i].code],
          names |-> [i \in 1..Len(candidates) |-> candidates[i].name]]
  ELSE SYSTEM_PROMPT

\* The upstream the route calls for a provider.
Endpoint(provider) ==
  IF provider = "anthropic" /\ ANTHROPIC_API_KEY THEN "anthropic" ELSE "openai"

\* The request record once the route has issued its completion call.
CallCompletion(rq, system, provider) ==
  [rq EXCEPT !.pc = "completion", !.system = system,
             !.endpoint = Endpoint(provider),
             !.completionCalls = @ + 1]

\* The request record once a middleware or the route has answered; the
\* locals of the finished handler are gone.
Respond(rq, status, body) ==
  [rq EXCEPT !.pc = "done", !.status = status, !.body = body,
             !.system = SYSTEM_PROMPT, !.provider = "", !.endpoint = ""]

\* Mutant of CacheFresh: a cache whose age has reached the TTL still serves.
CacheFreshInclusive(cache, t) ==
  cache.data # NoData /\ t - cache.fetchedAt <= SETS_TTL_MS

\* The test fetchAllSets makes at time t before it fetches.
CacheFresh(cache, t) ==
  cache.data # NoData /\ t - cache.fetchedAt < SETS_TTL_MS

\* Mutant of FailedFetchCache: a failed fetch empties the cache.
FailedFetchCacheCleared(cache, t) == [data |-> NoData, fetchedAt |-> t]

\* SETS_CACHE after a fetchAllSets that started at t and threw: the throw
\* comes before every write.
FailedFetchCache(cache, t) == cache

\* Mutant of Route: the query is checked only after the completion call has
\* been issued.
RouteLateQueryCheck(rq, query, provider, cache, t) ==
  IF query = <<>>
    THEN Respond([rq EXCEPT !.completionCalls = @ + 1], 400,
                 JsonError("Query is required"))
  ELSE IF ExplicitCodeOf[query] # <<>>
    THEN CallCompletion(rq, ExplicitSystem(ExplicitCodeOf[query]), provider)
  ELSE IF CacheFresh(cache, t)
    THEN CallCompletion(rq, CandidateSystem(CandidatesOf[query, cache.data]),
                        provider)
  ELSE [rq EXCEPT !.pc = "fetchSets", !.fetchNow = t, !.provider = provider,
                  !.catalogFetches = @ + 1]

\* Mutant of Route: served from the cache, the candidates come out in the
\* opposite order.
RouteHitReversed(rq, query, provider, cache, t) ==
  IF query = <<>>
    THEN Respond(rq, 400, JsonError("Query is required"))
  ELSE IF ExplicitCodeOf[query] # <<>>
    THEN CallCompletion(rq, ExplicitSystem(ExplicitCodeOf[query]), provider)
  ELSE IF CacheFresh(cache, t)
    THEN LET c == CandidatesOf[query, cache.data]
         IN  CallCompletion(rq,
               CandidateSystem([i \in 1..Len(c) |-> c[Len(c) + 1 - i]]),
               provider)
  ELSE [rq EXCEPT !.pc = "fetchSets", !.fetchNow = t, !.provider = provider,
                  !.catalogFetches = @ + 1]

\* The request record when the route runs, after rateLimitPerLicense has
\* called next(): the query check, the explicit code, and fetchAllSets up to
\* its fetch.
Route(rq, query, provider, cache, t) ==
  IF query = <<>>
    THEN Respond(rq, 400, JsonError("Query is required"))
  ELSE IF ExplicitCodeOf[query] # <<>>
    THEN CallCompletion(rq, ExplicitSystem(ExplicitCodeOf[query]), provider)
  ELSE IF CacheFresh(cache, t)
    THEN CallCompletion(rq, CandidateSystem(CandidatesOf[query, cache.data]),
                        provider)
  ELSE [rq EXCEPT !.pc = "fetchSets", !.fetchNow = t, !.provider = provider,
                  !.catalogFetches = @ + 1]

\* The middleware chain and the route up to its first pending await, for the
\* next request: requireLicense, rateLimitPerLicense, then the route.
ConvertStart(r, key, query, provider) ==
  /\ reqs[r].pc = "idle"
  /\ \A p \in Reqs : p < r => reqs[p].pc # "idle"
  /\ LET lic == requireLicense(key, VALID_LICENSES, now)
         lim == rateLimitPerLicense(key, usage, now)
         rq0 == [reqs[r] EXCEPT !.licenseKey = key, !.query = query]
         rq1 == [rq0 EXCEPT !.limiter = IF lim.next THEN "admitted" ELSE "rejected",
                            !.limitedAt = now,
                            !.rec = lim.rec,
                            !.stored = usage[key],
                            !.headers = lim.headers]
     IN  IF ~lic.next
           THEN /\ reqs' = [reqs EXCEPT ![r] =
                              Respond([rq0 EXCEPT !.headers = lic.headers],
                                      lic.status, lic.body)]
                /\ UNCHANGED <<usage, windowStart>>
         ELSE
           /\ usage' = lim.usage
           /\ windowStart' = IF lim.created
                               THEN [windowStart EXCEPT ![key] = now]
                               ELSE windowStart
           /\ reqs' = [reqs EXCEPT ![r] =
                IF ~lim.next THEN Respond(rq1, lim.status, lim.body)
                ELSE Route(rq1, query, provider, SETS_CACHE, now)]
  /\ UNCHANGED <<now, SETS_CACHE, licenseVars, pureVars, clientVars>>

\* Mutant of FetchSetsOk: a refresh that finds the cache already refreshed
\* leaves it alone.
FetchSetsOkFirstWins(r, data) ==
  /\ reqs[r].pc = "fetchSets"
  /\ LET sets == SetsOf[data]
     IN  /\ SETS_CACHE' = IF CacheFresh(SETS_CACHE, reqs[r].fetchNow)
                            THEN SETS_CACHE
                            ELSE [data |-> sets, fetchedAt |-> reqs[r].fetchNow]
         /\ reqs' = [reqs EXCEPT ![r] =
                       CallCompletion(reqs[r],
                         CandidateSystem(CandidatesOf[reqs[r].query, sets]),
                         reqs[r].provider)]
  /\ UNCHANGED <<now, usage, windowStart, licenseVars, pureVars, clientVars>>

\* The sets fetch of request r succeeds with data: fetchAllSets stores the
\* catalog, the resolver ranks it, the route issues its completion call.
FetchSetsOk(r, data) ==
  /\ reqs[r].pc = "fetchSets"
  /\ LET sets == SetsOf[data]
     IN  /\ SETS_CACHE' = [data |-> sets, fetchedAt |-> reqs[r].fetchNow]
         /\ reqs' = [reqs EXCEPT ![r] =
                       CallCompletion(reqs[r],
                         CandidateSystem(CandidatesOf[reqs[r].query, sets]),
                         reqs[r].provider)]
  /\ UNCHANGED <<now, usage, windowStart, licenseVars, pureVars, clientVars>>

\* The sets fetch of request r fails (rejected, not ok, or an unreadable
\* body): fetchAllSets throws outside the route's try block and the handler's
\* promise rejects.  Express 4 drops the rejection and never answers.
FetchSetsFailHang(r) ==
  /\ reqs[r].pc = "fetchSets"
  /\ reqs' = [reqs EXCEPT ![r].pc = "hung", ![r].failure = "sets"]
  /\ SETS_CACHE' = FailedFetchCache(SETS_CACHE, reqs[r].fetchNow)
  /\ UNCHANGED <<now, usage, windowStart, licenseVars, pureVars, clientVars>>

\* The same failure under Express 5, which hands the rejection to its
\* default error handler: a 500 with an HTML body.
FetchSetsFailDefault(r) ==
  /\ reqs[r].pc = "fetchSets"
  /\ reqs' = [reqs EXCEPT ![r] =
                Respond([reqs[r] EXCEPT !.failure = "sets"], 500, [kind |-> "html"])]
  /\ SETS_CACHE' = FailedFetchCache(SETS_CACHE, reqs[r].fetchNow)
  /\ UNCHANGED <<now, usage, windowStart, licenseVars, pureVars, clientVars>>

\* The completion call of request r returns text.
CompletionOk(r, text) ==
  /\ reqs[r].pc = "completion"
  /\ reqs' = [reqs EXCEPT ![r] =
                Respond(reqs[r], 200, [kind |-> "json", syntax |-> ResultOf[text]])]
  /\ UNCHANGED <<now, usage, windowStart, SETS_CACHE, licenseVars, pureVars, clientVars>>

\* Mutant of CaughtResponse: the error is swallowed into an empty result.
CaughtResponseSwallowed(rq, message) ==
  Respond([rq EXCEPT !.failure = "completion"], 200,
          [kind |-> "json", syntax |-> <<>>])

\* Mutant of CaughtResponse: the catch block issues the completion call again.
CaughtResponseRetried(rq, message) ==
  [rq EXCEPT !.failure = "completion", !.completionCalls = @ + 1]

\* The answer of the route's catch block for an error with this message.
CaughtResponse(rq, message) ==
  Respond([rq EXCEPT !.failure = "completion"], 500, JsonError(message))

\* Mutant of CompletionFail: the catch gives the admission back.
CompletionFailRefunded(r, message) ==
  /\ reqs[r].pc = "completion"
  /\ reqs' = [reqs EXCEPT ![r] = CaughtResponse(reqs[r], message)]
  /\ usage' = [usage EXCEPT ![reqs[r].licenseKey] =
                 IF @ = NoRec THEN @
                 ELSE [count |-> Max(0, @.count - 1), resetAt |-> @.resetAt]]
  /\ UNCHANGED <<now, windowStart, SETS_CACHE, licenseVars, pureVars, clientVars>>

\* The completion call of request r fails and the route's catch answers.
CompletionFail(r, message) ==
  /\ reqs[r].pc = "completion"
  /\ reqs' = [reqs EXCEPT ![r] = CaughtResponse(reqs[r], message)]
  /\ UNCHANGED <<now, usage, windowStart, SETS_CACHE, licenseVars, pureVars, clientVars>>

\* -------------------------------------------------- POST /stripe/webhook
CHECKOUT_COMPLETED == "checkout.session.completed"
OTHER_EVENT == "charge.succeeded"
\* Whether process.env.RESEND_API_KEY is set.
RESEND_API_KEY == TRUE

Received == [kind |-> "json", received |-> TRUE]

\* Mutant of webhook: the outcome of constructEvent is ignored.
webhookUnverified(verified, type, email, license, valid, map) ==
  LET em == toLowerCase(email)
  IN  IF type = CHECKOUT_COMPLETED
        THEN [status |-> 200, body |-> Received, license |-> license,
              valid |-> valid \cup {license},
              map |-> IF em # NoEmail THEN [map EXCEPT ![em] = license] ELSE map,
              send |-> RESEND_API_KEY /\ em # NoEmail]
      ELSE [status |-> 200, body |-> Received, license |-> NoLicense,
            valid |-> valid, map |-> map, send |-> FALSE]

\* Mutant of webhook: a completed checkout is acknowledged without a license
\* being added.
webhookNotProvisioning(verified, type, email, license, valid, map) ==
  IF ~verified
    THEN [status |-> 400, body |-> [kind |-> "text"], license |-> NoLicense,
          valid |-> valid, map |-> map, send |-> FALSE]
  ELSE [status |-> 200, body |-> Received,
        license |-> IF type = CHECKOUT_COMPLETED THEN license ELSE NoLicense,
        valid |-> valid, map |-> map, send |-> FALSE]

\* The webhook handler up to its await: constructEvent throws (verified
\* FALSE) or returns an event of this type with this payer email; license is
\* what generateLicense returns.  The result is the response, the license
\* provisioned, VALID_LICENSES and EMAIL_TO_LICENSE afterwards, and whether
\* the handler awaits the license email before it answers.
webhook(verified, type, email, license, valid, map) ==
  LET em == toLowerCase(email)
  IN  IF ~verified
        THEN [status |-> 400, body |-> [kind |-> "text"], license |-> NoLicense,
              valid |-> valid, map |-> map, send |-> FALSE]
      ELSE IF type = CHECKOUT_COMPLETED
        THEN [status |-> 200, body |-> Received, license |-> license,
              valid |-> valid \cup {license},
              map |-> IF em # NoEmail THEN [map EXCEPT ![em] = license] ELSE map,
              send |-> RESEND_API_KEY /\ em # NoEmail]
      ELSE [status |-> 200, body |-> Received, license |-> NoLicense,
            valid |-> valid, map |-> map, send |-> FALSE]

\* The next webhook request arrives and its handler runs up to the await of
\* the license email, or to its response.
WebhookStart(h, verified, type, email, license) ==
  /\ hooks[h].pc = "idle"
  /\ \A g \in Hooks : g < h => hooks[g].pc # "idle"
  /\ LET out == webhook(verified, type, email, license,
                        VALID_LICENSES, EMAIL_TO_LICENSE)
         hk == [hooks[h] EXCEPT !.verified = verified,
                                !.type = IF verified THEN type ELSE "",
                                !.email = IF verified THEN email ELSE NoEmail,
                                !.license = out.license]
     IN  /\ VALID_LICENSES' = out.valid
         /\ EMAIL_TO_LICENSE' = out.map
         /\ provisions' = IF out.license # NoLicense
                            THEN Append(provisions, h) ELSE provisions
         /\ hooks' = [hooks EXCEPT ![h] =
                        IF out.send THEN [hk EXCEPT !.pc = "email"]
                        ELSE [hk EXCEPT !.pc = "done", !.status = out.status,
                                        !.body = out.body]]
  /\ UNCHANGED <<now, usage, windowStart, SETS_CACHE, probes, pureVars, clientVars, reqs>>

\* resend.emails.send of hook h has settled, resolved or rejected (a
\* rejection is only logged): the handler acknowledges the event.
WebhookEmailed(h) ==
  /\ hooks[h].pc = "email"
  /\ hooks' = [hooks EXCEPT ![h].pc = "done", ![h].status = 200,
                            ![h].body = Received]
  /\ UNCHANGED <<now, usage, windowStart, SETS_CACHE, VALID_LICENSES,
                 EMAIL_TO_LICENSE, provisions, probes, pureVars, clientVars, reqs>>

\* ---------------------------------------------- POST /api/validate-license
validateLicense(key, valid, t) ==
  IF key = NoKey
    THEN [status |-> 400,
          body |-> [kind |-> "json", valid |-> FALSE,
                    error |-> "License key required"],
          headers |-> setRateHeaders(MAX_REQUESTS, t + WINDOW_MS, t)]
  ELSE [status |-> 200, body |-> [kind |-> "json", valid |-> key \in valid],
        headers |-> NoHeaders]

ValidateLicense(key) ==
  /\ probes.pc # "retrieve"
  /\ LET out == validateLicense(key, VALID_LICENSES, now)
     IN  probes' = [pc |-> "done", route |-> "validate-license", arg |-> key,
                    email |-> NoEmail, status |-> out.status, body |-> out.body,
                    headers |-> out.headers]
  /\ UNCHANGED <<now, usage, windowStart, SETS_CACHE, VALID_LICENSES,
                 EMAIL_TO_LICENSE, hooks, provisions, pureVars, clientVars, reqs>>

\* ---------------------------------------------- GET /api/license/by-session
NoSession == ""
SessionInputs == {NoSession, "cs_test_1"}

BySessionStart(sid) ==
  /\ probes.pc # "retrieve"
  /\ probes' = IF sid = NoSession
                 THEN [NoProbe EXCEPT !.pc = "done", !.route = "by-session",
                         !.status = 400, !.body = JsonError("session_id required")]
               ELSE [NoProbe EXCEPT !.pc = "retrieve", !.route = "by-session",
                       !.arg = sid]
  /\ UNCHANGED <<now, usage, windowStart, SETS_CACHE, VALID_LICENSES,
                 EMAIL_TO_LICENSE, hooks, provisions, pureVars, clientVars, reqs>>

\* The answer of by-session once stripe has returned a session with this
\* payer email.
bySession(email, map) ==
  LET em == toLowerCase(email)
  IN  IF em = NoEmail THEN [status |-> 404, body |-> JsonError("email not found")]
      ELSE IF map[em] # NoLicense
        THEN [status |-> 200, body |-> [kind |-> "json", license |-> map[em]]]
      ELSE [status |-> 404, body |-> JsonError("license not found")]

BySessionRetrieved(email) ==
  /\ probes.pc = "retrieve"
  /\ LET out == bySession(email, EMAIL_TO_LICENSE)
     IN  probes' = [probes EXCEPT !.pc = "done", !.email = toLowerCase(email),
                                  !.status = out.status, !.body = out.body]
  /\ UNCHANGED <<now, usage, windowStart, SETS_CACHE, VALID_LICENSES,
                 EMAIL_TO_LICENSE, hooks, provisions, pureVars, clientVars, reqs>>

\* stripe.checkout.sessions.retrieve rejects.
BySessionFailed ==
  /\ probes.pc = "retrieve"
  /\ probes' = [probes EXCEPT !.pc = "done", !.status = 500,
                              !.body = JsonError("lookup failed")]
  /\ UNCHANGED <<now, usage, windowStart, SETS_CACHE, VALID_LICENSES,
                 EMAIL_TO_LICENSE, hooks, provisions, pureVars, clientVars, reqs>>

\* ------------------------------------- content script and service worker
\* The value of the nlp-input textarea: blank, a query.
TextInputs == {<<" ">>, QueryExplicit, QueryNamed}

\* What chrome.runtime.sendMessage resolves to: the service worker's
\* {ok: true, data}, with or without data.syntax, or {ok: false, error}.
NoSyntax == <<>>
Converted(syntax) == [ok |-> TRUE, syntax |-> syntax, error |-> ""]
Failed(msg) == [ok |-> FALSE, syntax |-> NoSyntax, error |-> msg]
Responses ==
  {Converted(ResultOf[text]) : text \in CompletionTexts}
    \cup {Converted(NoSyntax), Failed("Network error")}

\* The call once handleConvert has returned with this outcome: its locals
\* are gone.
Returned(call, outcome) ==
  [IdleCall EXCEPT !.pc = "done", !.req = call.req, !.outcome = outcome]

\* The number of convert messages sent so far.
Sent == Cardinality({c \in Calls : calls[c].req # 0})

\* !licenseKey && count >= FREE_SEARCH_LIMIT
LimitReached(licenseKey, count) ==
  licenseKey = NoKey /\ count >= FREE_SEARCH_LIMIT

\* licenseKey || 'FREE_TRIAL'
TrialKey(licenseKey) == IF licenseKey = NoKey THEN FREE_TRIAL ELSE licenseKey

\* handleConvert of the content script is invoked (click on Convert, or
\* Enter in the textarea) and runs up to its await of storage.sync.get; no
\* input, no call.
HandleConvert(c, text) ==
  /\ calls[c].pc = "idle"
  /\ \A d \in Calls : d < c => calls[d].pc # "idle"
  /\ Cardinality({d \in Calls : calls[d].pc \notin {"idle", "done"}}) < MaxOverlap
  /\ LET q == trim(text)
     IN  calls' = [calls EXCEPT ![c] =
                     IF q = <<>>
                       THEN Returned(@, "empty")
                       ELSE [@ EXCEPT !.pc = "get", !.query = q]]
  /\ UNCHANGED <<now, usage, windowStart, SETS_CACHE, licenseVars, pureVars,
                 storage, reqs>>

\* storage.sync.get has answered: the limit check, then the convert message
\* is sent to the service worker.
StorageGet(c) ==
  /\ calls[c].pc = "get"
  /\ calls' = [calls EXCEPT ![c] =
       IF LimitReached(storage.licenseKey, storage.searchCount)
         THEN Returned(@, "limit")
         ELSE [@ EXCEPT !.pc = "send", !.count = storage.searchCount,
                        !.licenseKey = TrialKey(storage.licenseKey),
                        !.req = Sent + 1]]
  /\ UNCHANGED <<now, usage, windowStart, SETS_CACHE, licenseVars, pureVars,
                 storage, reqs>>

\* The call once sendMessage has resolved to resp: an error is shown, or
\* the syntax is shown and the new searchCount is being stored.
Answered(call, resp) ==
  IF ~resp.ok \/ resp.syntax = NoSyntax
    THEN Returned(call, "error")
    ELSE [call EXCEPT !.pc = "set", !.outcome = "converted"]

\* The service worker answers the message of call c with resp.
MessageAnswered(c, resp) ==
  /\ calls[c].pc = "send"
  /\ calls' = [calls EXCEPT ![c] = Answered(calls[c], resp)]
  /\ UNCHANGED <<now, usage, windowStart, SETS_CACHE, licenseVars, pureVars,
                 storage, reqs>>

\* storage.sync.set({searchCount: count + 1}) of call c, with the count
\* the call read before it sent its message.
StorageSet(c) ==
  /\ calls[c].pc = "set"
  /\ storage' = [storage EXCEPT !.searchCount = calls[c].count + 1]
  /\ calls' = [calls EXCEPT ![c] = Returned(@, "converted")]
  /\ UNCHANGED <<now, usage, windowStart, SETS_CACHE, licenseVars, pureVars,
                 reqs>>

\* handleConvert of the service worker: what it sends back for the
\* server's response rq to its POST /api/convert.
sendResponse(rq) ==
  IF rq.status >= 200 /\ rq.status <= 299
    THEN Converted(IF "syntax" \in DOMAIN rq.body THEN rq.body.syntax
                   ELSE NoSyntax)
  ELSE Failed(IF "error" \in DOMAIN rq.body THEN rq.body.error
              ELSE "Server error")

\* The POST of the service worker for the message of call c reaches the
\* server.
ServerReceives(c) ==
  /\ calls[c].pc = "send"
  /\ calls[c].req \in Reqs
  /\ ConvertStart(calls[c].req, calls[c].licenseKey, calls[c].query, "openai")

\* The server has answered the POST for call c; the service worker sends
\* its response to the content script.
BackgroundResponds(c) ==
  /\ calls[c].pc = "send"
  /\ calls[c].req \in Reqs
  /\ reqs[calls[c].req].pc = "done"
  /\ calls' = [calls EXCEPT ![c] =
                 Answered(calls[c], sendResponse(reqs[calls[c].req]))]
  /\ UNCHANGED <<now, usage, windowStart, SETS_CACHE, licenseVars, pureVars,
                 storage, reqs>>

\* The two test licenses are interchangeable: the second one is used only
\* once the first one has been.
KeysInOrder ==
  IF \E p \in Reqs : reqs[p].licenseKey = TEST_KEY_1
    THEN KeyInputs ELSE KeyInputs \ {TEST_KEY_2}

\* The rate limiter under load: every kind of license key, requests that stop
\* at the query check or go straight to the completion call.
Next ==
  \/ Tick
  \/ Sweep
  \/ \E r \in Reqs, key \in KeysInOrder, query \in {QueryMissing, QueryExplicit} :
       ConvertStart(r, key, query, "")
  \/ \E r \in Reqs, text \in CompletionTexts : CompletionOk(r, text)
  \/ \E r \in Reqs : CompletionFail(r, NOT_OK_MESSAGE)

Spec == Init /\ [][Next]_vars

\* The whole route for one license: every query, the sets fetch and the
\* completion call of concurrent requests, both kinds of completion failure.
NextConvert ==
  \/ TickUpTo(MaxConvertTime)
  \/ Sweep
  \/ \E r \in Reqs, key \in {NoKey, TEST_KEY_1, BOGUS_KEY}, query \in QueryInputs :
       ConvertStart(r, key, query, "")
  \/ \E r \in Reqs, data \in RawSets : FetchSetsOk(r, data)
  \/ \E r \in Reqs : FetchSetsFailHang(r)
  \/ \E r \in Reqs : FetchSetsFailDefault(r)
  \/ \E r \in Reqs, text \in CompletionTexts : CompletionOk(r, text)
  \/ \E r \in Reqs, message \in CompletionErrors : CompletionFail(r, message)

SpecConvert == Init /\ [][NextConvert]_vars

\* The resolver for one license: every kind of query against two different
\* fetch responses, refreshes of concurrent requests, a failing fetch.
ResolveReqs == 1..MaxResolveReqs
NextResolve ==
  \/ TickUpTo(MaxResolveTime)
  \/ \E r \in ResolveReqs, query \in ResolveQueries :
       ConvertStart(r, TEST_KEY_1, query, "")
  \/ \E r \in ResolveReqs, data \in ResolveRawSets : FetchSetsOk(r, data)
  \/ \E r \in ResolveReqs : FetchSetsFailHang(r)
  \/ \E r \in ResolveReqs, text \in CompletionTexts : CompletionOk(r, text)

SpecResolve == Init /\ [][NextResolve]_vars

\* The resolver on catalogs in which entities of one code score differently.
DedupQueries == {QueryElves, QueryMany, QueryOne, QueryNone}
NextDedup ==
  \/ TickUpTo(MaxResolveTime)
  \/ \E r \in ResolveReqs, query \in DedupQueries :
       ConvertStart(r, TEST_KEY_1, query, "")
  \/ \E r \in ResolveReqs, data \in DedupRawSets : FetchSetsOk(r, data)
  \/ \E r \in ResolveReqs, text \in CompletionTexts : CompletionOk(r, text)

SpecDedup == Init /\ [][NextDedup]_vars

\* Licenses: webhooks with and without a valid signature, the license
\* probes, and a /api/convert request with a generated license.
LicenseReqs == 1..MaxLicenseReqs
NextLicense ==
  \/ \E h \in Hooks, verified \in BOOLEAN, type \in {CHECKOUT_COMPLETED, OTHER_EVENT},
        email \in EmailInputs, license \in GeneratedLicenses :
       WebhookStart(h, verified, type, email, license)
  \/ \E h \in Hooks : WebhookEmailed(h)
  \/ \E key \in {NoKey, BOGUS_KEY} \cup GeneratedLicenses : ValidateLicense(key)
  \/ \E sid \in SessionInputs : BySessionStart(sid)
  \/ \E email \in EmailInputs : BySessionRetrieved(email)
  \/ BySessionFailed
  \/ \E r \in LicenseReqs, key \in GeneratedLicenses :
       ConvertStart(r, key, QueryMissing, "")

SpecLicense == Init /\ [][NextLicense]_vars

\* Every kind of response of /api/convert and of validate-license, for
\* requests that arrive within one millisecond.
NextHeaders ==
  \/ \E r \in Reqs, key \in {NoKey, TEST_KEY_1, BOGUS_KEY}, query \in QueryInputs :
       ConvertStart(r, key, query, "")
  \/ \E r \in Reqs, data \in RawSets : FetchSetsOk(r, data)
  \/ \E r \in Reqs : FetchSetsFailHang(r)
  \/ \E r \in Reqs : FetchSetsFailDefault(r)
  \/ \E r \in Reqs, text \in CompletionTexts : CompletionOk(r, text)
  \/ \E r \in Reqs : CompletionFail(r, NOT_OK_MESSAGE)
  \/ \E key \in {NoKey, TEST_KEY_1} : ValidateLicense(key)

SpecHeaders == Init /\ [][NextHeaders]_vars

\* norm on its own: every string of up to MaxLen of these characters is
\* normalized, and the result normalized again.
\* The content script alone, for a user with and without a license: the
\* service worker answers its messages either way.
InitClient ==
  /\ InitServer
  /\ input = <<>>
  /\ output = NoOutput
  /\ storage \in {NoStorage, [NoStorage EXCEPT !.licenseKey = TEST_KEY_1]}

NextClient ==
  \/ \E c \in Calls, text \in {<<" ">>, QueryExplicit} : HandleConvert(c, text)
  \/ \E c \in Calls : StorageGet(c)
  \/ \E c \in Calls, resp \in Responses : MessageAnswered(c, resp)
  \/ \E c \in Calls : StorageSet(c)

SpecClient == InitClient /\ [][NextClient]_vars

\* The content script, the service worker and a healthy server.
NextTrial ==
  \/ \E c \in TrialCalls, text \in TextInputs : HandleConvert(c, text)
  \/ \E c \in TrialCalls : StorageGet(c)
  \/ \E c \in TrialCalls : ServerReceives(c)
  \/ \E r \in Reqs, data \in RawSets : FetchSetsOk(r, data)
  \/ \E r \in Reqs, text \in CompletionTexts : CompletionOk(r, text)
  \/ \E c \in TrialCalls : BackgroundResponds(c)
  \/ \E c \in TrialCalls : StorageSet(c)

SpecTrial == InitClient /\ [][NextTrial]_vars

NormChars == {"a", "B", "7", " ", "-"}
RECURSIVE StringsUpTo(_)
StringsUpTo(n) ==
  IF n = 0 THEN {<<>>}
  ELSE LET shorter == StringsUpTo(n - 1)
       IN  shorter \cup {Append(s, c) : s \in shorter, c \in NormChars}
NormInputs == StringsUpTo(MaxLen)

InitNorm ==
  /\ InitServer
  /\ input \in NormInputs
  /\ output = NoOutput
  /\ storage = NoStorage

ApplyNorm ==
  /\ Len(output) < 2
  /\ output' = Append(output, norm(IF output = NoOutput THEN input
                                   ELSE output[Len(output)]))
  /\ UNCHANGED <<now, usage, windowStart, SETS_CACHE, licenseVars, input,
                 clientVars, reqs>>

NextNorm == ApplyNorm

SpecNorm == InitNorm /\ [][NextNorm]_vars

\* ================================================================ claims
\* The requests for which rateLimitPerLicense ran, and those it admitted.
Called(r) == reqs[r].limiter # "none"
Admitted(r) == reqs[r].limiter = "admitted"
CallsOf(k) == {r \in Reqs : Called(r) /\ reqs[r].licenseKey = k}
\* Request r starts in this step (its middleware chain runs).
Starts(r) == reqs[r].pc = "idle" /\ reqs'[r].pc # "idle"

\* The calls for k that fall before the resetAt of the window its first call
\* opened (request ids follow the order of the calls).
FirstWindow(k) ==
  {r \in CallsOf(k) :
     reqs[r].limitedAt < reqs[SetMin(CallsOf(k))].limitedAt + WINDOW_MS}
Ordinal(k, r) == Cardinality({p \in FirstWindow(k) : p <= r})

\* C1: from no record for an identity, while its first window lasts, the
\* n-th call is admitted with remaining = MAX - n for n = 1..MAX, and call
\* MAX+1 is rejected with 429 and resetSeconds > 0.
C1_FirstWindowCountdown ==
  \A k \in AllKeys : \A r \in FirstWindow(k) :
    LET n == Ordinal(k, r)
    IN  /\ n <= MAX_REQUESTS =>
             Admitted(r) /\ reqs[r].headers.remaining = MAX_REQUESTS - n
        /\ n = MAX_REQUESTS + 1 =>
             /\ reqs[r].limiter = "rejected"
             /\ reqs[r].status = 429
             /\ reqs[r].body.resetSeconds > 0

\* An identity has made MAX+1 calls within its first window.
C1_Witness ==
  \E k \in AllKeys : Cardinality(FirstWindow(k)) = MAX_REQUESTS + 1

\* C2: every stored usage record has 0 <= count <= MAX_REQUESTS and a
\* resetAt equal to the creation time of its window plus WINDOW_MS, hence
\* later than the window start.
C2_RecordBounds ==
  \A k \in AllKeys :
    usage[k] # NoRec =>
      /\ usage[k].count >= 0
      /\ usage[k].count <= MAX_REQUESTS
      /\ usage[k].resetAt = windowStart[k] + WINDOW_MS
      /\ usage[k].resetAt > windowStart[k]

\* Two identities hold records, one full and past its reset time, the other
\* created later.
C2_Witness ==
  \E k1, k2 \in AllKeys :
    /\ k1 # k2
    /\ usage[k1] # NoRec /\ usage[k2] # NoRec
    /\ usage[k1].count = MAX_REQUESTS
    /\ now >= usage[k1].resetAt
    /\ windowStart[k2] > windowStart[k1]

\* C3: whatever the interleaving of the requests of one identity, at most
\* MAX_REQUESTS of them are admitted within one window of that identity.
C3_AdmittedPerWindow ==
  \A r \in Reqs :
    Admitted(r) =>
      Cardinality({p \in Reqs :
                     /\ Admitted(p)
                     /\ reqs[p].licenseKey = reqs[r].licenseKey
                     /\ reqs[p].limitedAt >= reqs[r].rec.resetAt - WINDOW_MS
                     /\ reqs[p].limitedAt < reqs[r].rec.resetAt})
        <= MAX_REQUESTS

\* Two admitted requests of one identity are in flight at once while a third
\* request of that identity, made in the same window, has been rejected.
C3_Witness ==
  \E r1, r2, r3 \in Reqs :
    /\ r1 # r2
    /\ reqs[r1].pc = "completion" /\ reqs[r2].pc = "completion"
    /\ reqs[r1].licenseKey = reqs[r2].licenseKey
    /\ reqs[r3].licenseKey = reqs[r1].licenseKey
    /\ reqs[r3].status = 429
    /\ reqs[r3].limitedAt < reqs[r1].rec.resetAt

\* C4: a call for an identity whose stored record has now >= resetAt is
\* admitted whatever the old count, and leaves the record
\* {count: 1, resetAt: now + WINDOW_MS}.
C4_Rollover ==
  [][\A r \in Reqs :
       LET k == reqs'[r].licenseKey
       IN  (/\ Starts(r)
            /\ Called(r)'
            /\ usage[k] # NoRec
            /\ now >= usage[k].resetAt)
           => /\ Admitted(r)'
              /\ usage'[k] = [count |-> 1, resetAt |-> now + WINDOW_MS]]_vars

\* A full window was rolled over: after a call that filled the window, a
\* later call at or after its resetAt was admitted with count 1.
C4_Witness ==
  \E p, r \in Reqs :
    /\ p < r
    /\ reqs[p].licenseKey = reqs[r].licenseKey
    /\ Admitted(p) /\ reqs[p].rec.count = MAX_REQUESTS
    /\ Admitted(r) /\ reqs[r].limitedAt >= reqs[p].rec.resetAt
    /\ reqs[r].rec.count = 1
    /\ usage[reqs[r].licenseKey] = reqs[r].rec

\* C5: a call rejected with 429 leaves the usage table as it was, and the
\* reset time it reports is that of the stored record.
C5_RejectFrame ==
  [][\A r \in Reqs :
       LET k == reqs'[r].licenseKey
       IN  (Starts(r) /\ reqs'[r].status = 429)
           => /\ usage' = usage
              /\ usage[k] # NoRec
              /\ reqs'[r].rec = usage[k]
              /\ reqs'[r].body.resetSeconds = CeilSeconds(usage[k].resetAt - now)
              /\ reqs'[r].headers.reset = Max(0, CeilSeconds(usage[k].resetAt - now))]_vars

\* A request was rejected with 429 and the record of its identity is full.
C5_Witness ==
  \E r \in Reqs :
    /\ reqs[r].status = 429
    /\ usage[reqs[r].licenseKey] # NoRec
    /\ usage[reqs[r].licenseKey].count = MAX_REQUESTS

\* C6: a request without a license key is answered 401, one whose key is
\* not a valid license 403, and neither changes the usage table.
C6_IdentityShortCircuit ==
  [][\A r \in Reqs :
       LET k == reqs'[r].licenseKey
       IN  Starts(r) =>
             /\ k = NoKey =>
                  reqs'[r].status = 401 /\ usage' = usage
             /\ (k # NoKey /\ k \notin VALID_LICENSES) =>
                  reqs'[r].status = 403 /\ usage' = usage]_vars

\* A 401 and a 403 were answered while another identity holds a record.
C6_Witness ==
  /\ \E r \in Reqs : reqs[r].licenseKey = NoKey /\ reqs[r].status = 401
  /\ \E r \in Reqs : reqs[r].licenseKey = BOGUS_KEY /\ reqs[r].status = 403
  /\ \E k \in AllKeys : usage[k] # NoRec

\* C7 as stated: a request with a valid key and a missing query, answered
\* 400, leaves the usage record of its identity unchanged.
C7_QuotaUntouchedBy400 ==
  [][\A r \in Reqs :
       (Starts(r) /\ reqs'[r].status = 400)
       => usage'[reqs'[r].licenseKey] = usage[reqs'[r].licenseKey]]_vars

\* C7 amended: a request answered 400 for a missing query has been admitted
\* by the rate limiter first and has consumed one slot: the count of its
\* identity is one more than the count of its open window (1 in a new one).
C7_QuotaConsumedBy400 ==
  [][\A r \in Reqs :
       LET k == reqs'[r].licenseKey
           open == usage[k] # NoRec /\ now < usage[k].resetAt
       IN  (Starts(r) /\ reqs'[r].status = 400)
           => /\ Admitted(r)'
              /\ usage'[k] # NoRec
              /\ usage'[k].count = (IF open THEN usage[k].count ELSE 0) + 1
              /\ usage'[k].resetAt = (IF open THEN usage[k].resetAt
                                              ELSE now + WINDOW_MS)]_vars

\* A request without a query took the last slot of its window.
C7_Witness ==
  \E r \in Reqs :
    /\ reqs[r].status = 400
    /\ reqs[r].query = QueryMissing
    /\ reqs[r].rec.count = MAX_REQUESTS
    /\ usage[reqs[r].licenseKey] = reqs[r].rec

\* C8: a request answered 401, 403, 429 or 400 has issued no sets fetch and
\* no completion call.
C8_NoUpstreamWhenShortCircuited ==
  \A r \in Reqs :
    reqs[r].status \in {400, 401, 403, 429} =>
      /\ reqs[r].pc = "done"
      /\ reqs[r].catalogFetches = 0
      /\ reqs[r].completionCalls = 0

\* A request was rejected with 429 and another was answered 400, while an
\* admitted request has issued both upstream calls.
C8_Witness ==
  /\ \E r \in Reqs : reqs[r].status = 429
  /\ \E r \in Reqs : reqs[r].status = 400
  /\ \E r \in Reqs : reqs[r].catalogFetches = 1 /\ reqs[r].completionCalls = 1

\* C9 as stated: an admitted request whose sets fetch failed is answered
\* with a 502 carrying a JSON error.
C9_CatalogFailureAnswered ==
  \A r \in Reqs :
    reqs[r].failure = "sets" =>
      /\ reqs[r].pc = "done"
      /\ reqs[r].status = 502
      /\ reqs[r].body.kind = "json"
      /\ "error" \in DOMAIN reqs[r].body

C11_SingleAttempt ==
  \A r \in Reqs :
    /\ reqs[r].catalogFetches <= 1
    /\ reqs[r].completionCalls <= 1
    /\ reqs[r].failure # "" => reqs[r].pc \in {"hung", "done"}
    /\ reqs[r].failure = "sets" => reqs[r].completionCalls = 0

\* One request ended on a failed catalog fetch, another on a failed
\* completion call that followed its catalog fetch.
C11_Witness ==
  /\ \E r \in Reqs : reqs[r].failure = "sets" /\ reqs[r].catalogFetches = 1
  /\ \E r \in Reqs :
       /\ reqs[r].failure = "completion"
       /\ reqs[r].catalogFetches = 1
       /\ reqs[r].completionCalls = 1

\* Request r reaches fetchAllSets in this step: it starts, is admitted, has
\* a query and no explicit code.
CallsFetchAllSets(r) ==
  /\ Starts(r)
  /\ reqs'[r].limiter = "admitted"
  /\ reqs'[r].query # <<>>
  /\ ExplicitCodeOf[reqs'[r].query] = <<>>

\* C12: a call of fetchAllSets goes without the external fetch exactly when
\* cached data exists and now - fetchedAt < SETS_TTL_MS; then the cache is
\* left as it is and the route goes on with the cached data.  With no data
\* or an age that has reached the TTL the call issues the fetch.
C12_CacheHitIffFresh ==
  [][\A r \in Reqs :
       CallsFetchAllSets(r) =>
         LET fresh == /\ SETS_CACHE.data # NoData
                      /\ now - SETS_CACHE.fetchedAt < SETS_TTL_MS
         IN  /\ fresh =>
                  /\ reqs'[r].catalogFetches = 0
                  /\ reqs'[r].pc = "completion"
                  /\ SETS_CACHE' = SETS_CACHE
             /\ ~fresh =>
                  /\ reqs'[r].catalogFetches = 1
                  /\ reqs'[r].pc = "fetchSets"]_vars

\* One request was served from the cache, and a later one fetches because
\* the age of the cached data has reached the TTL.
C12_Witness ==
  /\ SETS_CACHE.data # NoData
  /\ \E r \in Reqs :
       /\ Admitted(r)
       /\ reqs[r].query = QueryNamed
       /\ reqs[r].catalogFetches = 0
  /\ \E r \in Reqs :
       /\ reqs[r].pc = "fetchSets"
       /\ reqs[r].fetchNow - SETS_CACHE.fetchedAt >= SETS_TTL_MS

\* C13: when the external fetch of request r fails, fetchAllSets throws
\* (the request records the failure and never gets a catalog) and SETS_CACHE,
\* data and fetchedAt, is what it was before.
C13_FailedFetchKeepsCache ==
  [][\A r \in Reqs :
       reqs[r].pc = "fetchSets" /\ reqs'[r].pc \in {"hung", "done"} =>
         /\ reqs'[r].failure = "sets"
         /\ reqs'[r].completionCalls = 0
         /\ SETS_CACHE' = SETS_CACHE]_vars

\* A fetch failed while the cache held data, and a later request fetched
\* again.
C13_Witness ==
  \E r \in Reqs, p \in Reqs :
    /\ reqs[r].failure = "sets"
    /\ SETS_CACHE.data # NoData
    /\ r < p
    /\ reqs[p].catalogFetches = 1
    /\ reqs[p].fetchNow >= reqs[r].fetchNow

\* cached is the catalog of one fetch response: its entities, mapped, in
\* order, followed by every alias.
BuiltFrom(cached, data) ==
  /\ Len(cached) = Len(data) + Len(aliases)
  /\ \A i \in 1..Len(data) :
       /\ cached[i].code = toLowerCase(data[i].code)
       /\ cached[i].name = data[i].name
       /\ cached[i].releasedAt # ALIAS_DATE
  /\ \A j \in 1..Len(aliases) :
       /\ cached[Len(data) + j].code = aliases[j].code
       /\ cached[Len(data) + j].name = aliases[j].name
       /\ cached[Len(data) + j].releasedAt = ALIAS_DATE

\* C14: in every reachable state SETS_CACHE is either empty with
\* fetchedAt = 0 or holds the whole catalog of one fetch response: its
\* mapped entities followed by all aliases, never a part of it and never a
\* mix of two responses.
C14_CacheWhole ==
  \/ SETS_CACHE.data = NoData /\ SETS_CACHE.fetchedAt = 0
  \/ \E data \in ResolveRawSets : BuiltFrom(SETS_CACHE.data, data)

\* Two requests fetched concurrently from the empty cache; one stored the
\* catalog of DomData and resolved against it, the other then replaced it
\* by the catalog of MastersData.
C14_Witness ==
  \E r \in Reqs, p \in Reqs :
    /\ r # p
    /\ reqs[r].catalogFetches = 1 /\ reqs[p].catalogFetches = 1
    /\ reqs[r].fetchNow = reqs[p].fetchNow
    /\ reqs[r].pc = "completion" /\ reqs[p].pc = "completion"
    /\ reqs[r].query = QueryElves
    /\ reqs[r].system.names[1] = DomData[1].name
    /\ BuiltFrom(SETS_CACHE.data, MastersData)

\* C15: an admitted request whose query holds a 2-5 character alphanumeric
\* token in parentheses ("(CMM)") or after a set/code label ("set: CMM")
\* calls the completion service with the explicit directive naming exactly
\* the lower-cased code, and never fetches the catalog, whatever the cache.
C15_ExplicitShortCircuit ==
  \A r \in Reqs :
    Admitted(r) /\ reqs[r].query \in {QueryExplicit, QueryLabel} =>
      /\ reqs[r].catalogFetches = 0
      /\ reqs[r].failure = ""
      /\ reqs[r].pc \in {"completion", "done"}
      /\ reqs[r].completionCalls = 1
      /\ reqs[r].pc = "completion" =>
           reqs[r].system = [kind |-> "explicit",
                             codes |-> << <<"c","m","m">> >>,
                             names |-> <<>>]

\* A labelled code went to the completion service while the cached catalog
\* had reached the TTL.
C15_Witness ==
  \E r \in Reqs :
    /\ reqs[r].query = QueryLabel
    /\ reqs[r].pc = "completion"
    /\ SETS_CACHE.data # NoData
    /\ reqs[r].limitedAt - SETS_CACHE.fetchedAt >= SETS_TTL_MS

\* Request r gets the candidates of the resolver in this step: its route
\* goes on to the completion call with a query that has no explicit code.
\* The catalog it resolved against is SETS_CACHE'.data, served from the
\* cache or just stored by its own fetch.
Resolves(r) ==
  /\ reqs[r].pc # "completion"
  /\ reqs'[r].pc = "completion"
  /\ ExplicitCodeOf[reqs'[r].query] = <<>>

\* C16: without an explicit code the directive follows the number of
\* candidates: none - the base instructions alone; one - the resolved
\* directive naming that code; several - the candidate list naming every
\* candidate, in order, and no other code.
C16_DirectiveByCandidateCount ==
  [][\A r \in Reqs :
       Resolves(r) =>
         LET c == CandidatesOf[reqs'[r].query, SETS_CACHE'.data]
             sys == reqs'[r].system
         IN  /\ Len(c) = 0 => sys = SYSTEM_PROMPT
             /\ Len(c) = 1 =>
                  /\ sys.kind = "resolved"
                  /\ sys.codes = <<c[1].code>>
                  /\ sys.names = <<c[1].name>>
             /\ Len(c) > 1 =>
                  /\ sys.kind = "candidates"
                  /\ Len(sys.codes) = Len(c)
                  /\ \A i \in 1..Len(c) :
                       sys.codes[i] = c[i].code /\ sys.names[i] = c[i].name]_vars

\* One request was sent with the base instructions alone while another was
\* sent with a candidate list.
C16_Witness ==
  /\ \E r \in Reqs :
       /\ reqs[r].pc = "completion"
       /\ reqs[r].query = QueryNone
       /\ reqs[r].system = SYSTEM_PROMPT
  /\ \E r \in Reqs :
       /\ reqs[r].pc = "completion"
       /\ reqs[r].system.kind = "candidates"
       /\ Len(reqs[r].system.codes) > 1

\* C17: a request whose query normalizes to the empty string triggers no
\* catalog fetch and meets no fetch failure, whatever the cache.
C17_EmptyQueryNoCatalog ==
  \A r \in Reqs :
    Admitted(r) /\ reqs[r].query = QueryPunct =>
      /\ reqs[r].catalogFetches = 0
      /\ reqs[r].failure # "sets"

\* The codes of the entities of sets that q matches by itself: the
\* normalized name is a substring of the normalized query, or they share a
\* whitespace-delimited token.
RawMatches(q, sets) ==
  {sets[i].code : i \in {j \in 1..Len(sets) :
     \/ includes(q, sets[j].nameNorm)
     \/ Range(split(q)) \cap Range(split(sets[j].nameNorm)) # {}}}
\* The same for the tightened query against the tightened names.
TightMatches(q, sets) ==
  {sets[i].code : i \in {j \in 1..Len(sets) :
     \/ includes(tighten(q), tighten(sets[j].nameNorm))
     \/ Range(split(tighten(q))) \cap Range(split(tighten(sets[j].nameNorm))) # {}}}
RawMatchesOf == [q \in AllQueries, sets \in Catalogs |-> RawMatches(norm(q), sets)]
TightMatchesOf == [q \in AllQueries, sets \in Catalogs |-> TightMatches(norm(q), sets)]

\* C18: the directive of a resolving request names only codes of entities
\* whose normalized name is a substring of the normalized query or shares a
\* token with it; with no such entity in the catalog it names none.
C18_OnlyRawMatches ==
  [][\A r \in Reqs :
       Resolves(r) =>
         Range(reqs'[r].system.codes)
           \subseteq RawMatchesOf[reqs'[r].query, SETS_CACHE'.data]]_vars

\* C18 amended: the directive names only codes of entities that match the
\* query as written (substring or shared token of the normalized forms) or
\* after tightening (the same test on the query and the name with the stop
\* words removed); with no such entity in the catalog it names none.
C18_OnlyRawOrTightMatches ==
  [][\A r \in Reqs :
       Resolves(r) =>
         LET q == reqs'[r].query
             sets == SETS_CACHE'.data
         IN  /\ Range(reqs'[r].system.codes)
                  \subseteq RawMatchesOf[q, sets] \cup TightMatchesOf[q, sets]
             /\ RawMatchesOf[q, sets] \cup TightMatchesOf[q, sets] = {} =>
                  reqs'[r].system = SYSTEM_PROMPT]_vars

\* A query that matches nothing was sent with the base instructions, and a
\* query that matches only after tightening was sent with candidates.
C18_Witness ==
  /\ \E r \in Reqs :
       /\ reqs[r].pc = "completion"
       /\ reqs[r].query = QueryNone
       /\ reqs[r].system = SYSTEM_PROMPT
  /\ \E r \in Reqs :
       /\ reqs[r].pc = "completion"
       /\ reqs[r].query = QueryTight
       /\ reqs[r].system.kind = "candidates"
       /\ RawMatchesOf[QueryTight, SETS_CACHE.data] = {}

\* Request r resolves 'legendary elves from Dominaria' in this step against
\* the catalog built from the fetch response holding {DOM, Dominaria}.
ResolvesElves(r) ==
  /\ Resolves(r)
  /\ reqs'[r].query = QueryElves
  /\ BuiltFrom(SETS_CACHE'.data, DomData)

\* C19: for 'legendary elves from Dominaria' against the catalog of the
\* fetch response {DOM, Dominaria} the resolver returns the single candidate
\* dom with score 100 and the directive is the resolved form for dom.
C19_ElvesResolvedToDom ==
  [][\A r \in Reqs :
       ResolvesElves(r) =>
         LET c == CandidatesOf[QueryElves, SETS_CACHE'.data]
         IN  /\ Len(c) = 1
             /\ c[1].code = <<"d","o","m">> /\ c[1].score = 100
             /\ reqs'[r].system.kind = "resolved"
             /\ reqs'[r].system.codes = << <<"d","o","m">> >>]_vars

\* C19 amended: for that query and catalog the resolver returns two
\* candidates, dom (the fetched Dominaria) with score 100 and then the alias
\* dmu (dominaria united) with score 1 for the shared token, and the
\* directive is the candidate list of dom and dmu.
C19_ElvesCandidatesDomDmu ==
  [][\A r \in Reqs :
       ResolvesElves(r) =>
         LET c == CandidatesOf[QueryElves, SETS_CACHE'.data]
         IN  /\ Len(c) = 2
             /\ c[1].code = <<"d","o","m">> /\ c[1].score = 100
             /\ c[1].name = DomData[1].name
             /\ c[2].code = <<"d","m","u">> /\ c[2].score = 1
             /\ reqs'[r].system.kind = "candidates"
             /\ reqs'[r].system.codes = << <<"d","o","m">>, <<"d","m","u">> >>]_vars

\* The query went to the completion service, resolved against that catalog.
C19_Witness ==
  \E r \in Reqs :
    /\ reqs[r].pc = "completion"
    /\ reqs[r].query = QueryElves
    /\ reqs[r].catalogFetches = 1
    /\ BuiltFrom(SETS_CACHE.data, DomData)
    /\ \A p \in Reqs : p # r => reqs[p].pc = "idle"

\* C20: the codes the resolver returns to a request are pairwise different,
\* for every query and catalog, also when an alias has the code of a fetched
\* entity.
C20_CodesUnique ==
  \A r \in Reqs :
    reqs[r].pc = "completion" =>
      \A i \in DOMAIN reqs[r].system.codes :
        \A j \in DOMAIN reqs[r].system.codes :
          reqs[r].system.codes[i] = reqs[r].system.codes[j] => i = j

\* A request got candidates from a catalog in which the alias dom repeats
\* the code of the fetched Dominaria, both matching the query.
C20_Witness ==
  \E r \in Reqs :
    /\ reqs[r].pc = "completion"
    /\ reqs[r].query = QueryElves
    /\ reqs[r].system.kind = "candidates"
    /\ \A p \in Reqs : p # r => reqs[p].pc = "idle"
    /\ Cardinality({i \in DOMAIN SETS_CACHE.data :
                      SETS_CACHE.data[i].code = <<"d","o","m">>}) = 2
    /\ Cardinality({i \in DOMAIN reqs[r].system.codes :
                      reqs[r].system.codes[i] = <<"d","o","m">>}) = 1

\* Hook h starts in this step (its handler runs up to its await or answer).
HookStarts(h) == hooks[h].pc = "idle" /\ hooks'[h].pc # "idle"

\* C25: a webhook request whose signature fails verification is answered
\* 400 at once and provisions nothing: no license is generated for it and
\* VALID_LICENSES and EMAIL_TO_LICENSE are unchanged.
C25_UnverifiedNeverProvisions ==
  [][\A h \in Hooks :
       HookStarts(h) /\ ~hooks'[h].verified =>
         /\ hooks'[h].pc = "done"
         /\ hooks'[h].status = 400
         /\ hooks'[h].license = NoLicense
         /\ provisions' = provisions
         /\ VALID_LICENSES' = VALID_LICENSES
         /\ EMAIL_TO_LICENSE' = EMAIL_TO_LICENSE]_vars

\* An unverified request was rejected after a verified one had provisioned
\* a license.
C25_Witness ==
  \E h \in Hooks, g \in Hooks :
    /\ g < h
    /\ hooks[g].license # NoLicense
    /\ hooks[h].pc = "done" /\ ~hooks[h].verified /\ hooks[h].status = 400
    /\ VALID_LICENSES = {TEST_KEY_1, TEST_KEY_2, hooks[g].license}

\* Hook h is a verified checkout.session.completed event that has been
\* acknowledged with {received: true}.
Acked(h) ==
  /\ hooks[h].pc = "done"
  /\ hooks[h].status = 200
  /\ hooks[h].type = CHECKOUT_COMPLETED
AckedLicenses == {hooks[h].license : h \in {g \in Hooks : Acked(g)}}
\* The license of the latest provisioning for the email em.
MostRecent(em) ==
  LET of == {i \in DOMAIN provisions : toLowerCase(hooks[provisions[i]].email) = em}
  IN  hooks[provisions[SetMax(of)]].license

C27_NormIdempotent ==
  Len(output) = 2 => output[2] = output[1]

\* An input with an upper-case letter and punctuation was normalized twice,
\* and the first result differs from the input.
C27_Witness ==
  /\ Len(output) = 2
  /\ "B" \in Range(input) /\ "-" \in Range(input)
  /\ output[1] # input /\ output[1] # <<>>

\* C28: the result of norm is empty or made of tokens of lower-case letters
\* and digits separated by exactly one space, with no space at either end.
C28_NormShape ==
  \A n \in Range(output) :
    /\ Range(n) \subseteq LowerAlnumSet \cup {" "}
    /\ n # <<>> => n[1] # " " /\ n[Len(n)] # " "
    /\ \A i \in 1..(Len(n) - 1) : ~(n[i] = " " /\ n[i + 1] = " ")

\* A result of two tokens came from an input whose tokens are separated by
\* a run of two different separators.
C28_Witness ==
  /\ output # NoOutput
  /\ Len(input) = 4
  /\ input[2] = "-" /\ input[3] = " "
  /\ Len(output[1]) = 3 /\ output[1][2] = " "

\* The normalized and the tightened form of every query, and its tokens.
NormOf == [query \in AllQueries |-> norm(query)]
TightOf == [query \in AllQueries |-> tighten(norm(query))]
TokensOf == [query \in AllQueries |-> Range(split(norm(query)))]

\* The entry c of a resolver result only shares tokens with the query: its
\* normalized name is not a substring of the normalized query.
TokensOnly(query, c) ==
  /\ ~includes(NormOf[query], c.nameNorm)
  /\ TokensOf[query] \cap Range(split(c.nameNorm)) # {}
\* The codes of the entities of sets whose normalized name is a substring of
\* the normalized query.
SubstringCodes(query, sets) ==
  {sets[i].code :
     i \in {j \in 1..Len(sets) : includes(NormOf[query], sets[j].nameNorm)}}

\* In the result c for query and sets, before the entry j come all other
\* codes that have an entity whose normalized name is a substring of the
\* normalized query.
AfterSubstrings(query, sets, c, j) ==
  \A a \in SubstringCodes(query, sets) \ {c[j].code} :
    \E i \in 1..(j - 1) : c[i].code = a
SubstringFirst(query, sets) ==
  LET c == CandidatesOf[query, sets]
  IN  \A j \in 1..Len(c) :
        TokensOnly(query, c[j]) => AfterSubstrings(query, sets, c, j)
SubstringFirstUnlessTight(query, sets) ==
  LET c == CandidatesOf[query, sets]
  IN  \A j \in 1..Len(c) :
        ( /\ TokensOnly(query, c[j])
          /\ ~includes(TightOf[query], tighten(c[j].nameNorm)) ) =>
          AfterSubstrings(query, sets, c, j)
SubstringFirstOf ==
  [query \in AllQueries, sets \in Catalogs |-> SubstringFirst(query, sets)]
SubstringFirstUnlessTightOf ==
  [query \in AllQueries, sets \in Catalogs |->
     SubstringFirstUnlessTight(query, sets)]
\* The codes of a resolver result, in order.
CodesOf ==
  [query \in AllQueries, sets \in Catalogs |->
     [i \in 1..Len(CandidatesOf[query, sets]) |-> CandidatesOf[query, sets][i].code]]

\* C21: in the resolver result a request gets, before an entry that only
\* shares tokens with the query comes every other code that has an entity
\* whose normalized name is a substring of the normalized query; none of
\* them is cut off.
C21_SubstringFirst ==
  [][\A r \in Reqs :
       Resolves(r) =>
         /\ reqs'[r].system.codes = CodesOf[reqs'[r].query, SETS_CACHE'.data]
         /\ SubstringFirstOf[reqs'[r].query, SETS_CACHE'.data]]_vars

\* C21 amended: the same for an entry that only shares tokens with the query
\* also after tightening: neither its normalized name is a substring of the
\* normalized query nor its tightened name a substring of the tightened
\* query.
C21_SubstringFirstUnlessTight ==
  [][\A r \in Reqs :
       Resolves(r) =>
         /\ reqs'[r].system.codes = CodesOf[reqs'[r].query, SETS_CACHE'.data]
         /\ SubstringFirstUnlessTightOf[reqs'[r].query, SETS_CACHE'.data]]_vars

\* The fetched Dominaria (2018) was ranked before the alias dominaria united
\* (9999), which only shares a token with the query.
C21_Witness ==
  \E r \in Reqs :
    /\ reqs[r].pc = "completion"
    /\ reqs[r].query = QueryElves
    /\ reqs[r].system.codes = << <<"d","o","m">>, <<"d","m","u">> >>
    /\ reqs[r].system.names[1] = DomData[1].name

\* The score of an entity for a query, and the entities with a score of at
\* least 1 reduced to one per code: the first of the best score.
EntityScore(query, e) ==
  Max(scoreMatch(NormOf[query], e.nameNorm),
      scoreMatch(TightOf[query], tighten(e.nameNorm)))
Representatives(query, sets) ==
  {i \in 1..Len(sets) :
     /\ EntityScore(query, sets[i]) >= 1
     /\ \A j \in 1..Len(sets) :
          sets[j].code = sets[i].code =>
            \/ EntityScore(query, sets[j]) < EntityScore(query, sets[i])
            \/ EntityScore(query, sets[j]) = EntityScore(query, sets[i]) /\ i <= j}
\* x comes no later than y: a higher score, or the same score and a release
\* date that is not older.
NotAfter(xScore, xDate, yScore, yDate) ==
  \/ xScore > yScore
  \/ xScore = yScore /\ ~StrGreater(yDate, xDate)
\* c is the first entries, at most 6, of the representatives in that order.
SortedPrefix(query, sets) ==
  LET c == CandidatesOf[query, sets]
      reps == Representatives(query, sets)
      taken == {i \in reps : \E j \in 1..Len(c) : c[j].code = sets[i].code}
  IN  /\ Len(c) <= 6
      /\ Len(c) = IF Cardinality(reps) < 6 THEN Cardinality(reps) ELSE 6
      /\ Cardinality(taken) = Len(c)
      /\ \A j \in 1..Len(c) :
           \E i \in taken :
             /\ c[j].code = sets[i].code
             /\ c[j].score = EntityScore(query, sets[i])
             /\ c[j].releasedAt = sets[i].releasedAt
      /\ \A i \in 1..Len(c) : \A j \in 1..Len(c) :
           i < j => NotAfter(c[i].score, c[i].releasedAt,
                             c[j].score, c[j].releasedAt)
      /\ \A i \in reps \ taken : \A j \in 1..Len(c) :
           NotAfter(c[j].score, c[j].releasedAt,
                    EntityScore(query, sets[i]), sets[i].releasedAt)
SortedPrefixOf ==
  [query \in AllQueries, sets \in Catalogs |-> SortedPrefix(query, sets)]

\* C22: the resolver result a request gets is sorted by score descending,
\* ties by release date descending (the alias date first), has at most 6
\* entries, and is the first 6 (or all) of the deduplicated entities of
\* positive score in that order.
C22_SortedAndLimited ==
  [][\A r \in Reqs :
       Resolves(r) =>
         /\ reqs'[r].system.codes = CodesOf[reqs'[r].query, SETS_CACHE'.data]
         /\ Len(reqs'[r].system.codes) <= 6
         /\ SortedPrefixOf[reqs'[r].query, SETS_CACHE'.data]]_vars

\* A query with seven matching codes got six: the four of score 100, the
\* fetched one of 2023 after the aliases, then two of score 1; the entity
\* without a release date was cut.
C22_Witness ==
  \E r \in Reqs :
    /\ reqs[r].pc = "completion"
    /\ reqs[r].query = QueryMany
    /\ reqs[r].system.codes =
         << <<"c","m","a">>, <<"2","x","m">>, <<"d","o","m">>,
            <<"c","m","m">>, <<"m","m","2">>, <<"d","m","u">> >>

CarriesHeaders(h) ==
  /\ h.limit = MAX_REQUESTS
  /\ h.remaining >= 0 /\ h.remaining <= MAX_REQUESTS
  /\ h.reset >= 0

SweepStep == now' = now /\ reqs' = reqs

\* C24: a sweep at time now removes every usage record with
\* now > resetAt + WINDOW_MS and leaves every other record, those of open
\* windows among them, present and unchanged.
C24_SweepCorrect ==
  [][SweepStep =>
       \A k \in AllKeys :
         IF usage[k] # NoRec /\ now > usage[k].resetAt + WINDOW_MS
           THEN usage'[k] = NoRec
           ELSE usage'[k] = usage[k]]_vars

\* A sweep has removed the record of TEST_KEY_1 while the record of
\* TEST_KEY_2, whose resetAt is exactly one window in the past, survived.
C24_Witness ==
  /\ usage[TEST_KEY_1] = NoRec
  /\ \E r \in Reqs : Admitted(r) /\ reqs[r].licenseKey = TEST_KEY_1
  /\ usage[TEST_KEY_2] # NoRec
  /\ now = usage[TEST_KEY_2].resetAt + WINDOW_MS

\* ------------------------------------------------------------------ C30
\* The quota of key k is spent at the time of this step.
Exhausted(k) ==
  /\ k \in AllKeys
  /\ usage[k] # NoRec
  /\ now < usage[k].resetAt
  /\ usage[k].count >= MAX_REQUESTS

\* C30: a request is answered by the first check that fails, in the order
\* missing key (401), unknown key (403), spent quota (429), missing query
\* (400), whatever later checks would have said; a request that passes all
\* four is not answered in that step.
C30_FirstFailureAnswers ==
  [][\A r \in Reqs :
       Starts(r) =>
         LET k == reqs'[r].licenseKey
             q == reqs'[r].query
             answer == IF reqs'[r].pc = "done" THEN reqs'[r].status ELSE 0
         IN  answer = IF k = NoKey THEN 401
                      ELSE IF k \notin VALID_LICENSES THEN 403
                      ELSE IF Exhausted(k) THEN 429
                      ELSE IF q = QueryMissing THEN 400
                      ELSE 0]_vars

\* Two requests of one valid key came without a query: the one the limiter
\* admitted was answered 400, the one that found the quota spent 429.
C30_Witness ==
  \E r, p \in Reqs :
    /\ reqs[r].licenseKey = reqs[p].licenseKey
    /\ reqs[r].query = QueryMissing /\ reqs[p].query = QueryMissing
    /\ reqs[r].pc = "done" /\ reqs[r].status = 400
    /\ reqs[p].pc = "done" /\ reqs[p].status = 429


\* ------------------------------------------------------------------ C31
\* C31: the window is fixed.  A request admitted while now < resetAt leaves
\* the resetAt of its key's record as it was and reports it; the resetAt of
\* a stored record changes only in a step where a request of that key
\* arrives at or after resetAt, and a record that replaces a swept one is
\* stored by a request too.
C31_FixedWindow ==
  [][\A k \in AllKeys :
       /\ \A r \in Reqs :
            ( /\ Starts(r) /\ reqs'[r].licenseKey = k
              /\ reqs'[r].limiter = "admitted"
              /\ usage[k] # NoRec /\ now < usage[k].resetAt ) =>
              /\ usage'[k].resetAt = usage[k].resetAt
              /\ reqs'[r].rec.resetAt = usage[k].resetAt
              /\ usage'[k].count = usage[k].count + 1
       /\ ( /\ usage'[k] # NoRec
            /\ (usage[k] = NoRec \/ usage'[k].resetAt # usage[k].resetAt) ) =>
            /\ \E r \in Reqs : Starts(r) /\ reqs'[r].licenseKey = k
            /\ usage[k] # NoRec => now >= usage[k].resetAt
            /\ usage'[k].resetAt = now + WINDOW_MS]_vars

\* Two requests of one key were admitted at different times of one window:
\* the second one reports the resetAt of the first and the record keeps it.
C31_Witness ==
  \E r, p \in Reqs :
    /\ Admitted(r) /\ Admitted(p)
    /\ reqs[r].licenseKey = reqs[p].licenseKey
    /\ reqs[r].limitedAt < reqs[p].limitedAt
    /\ reqs[p].rec.resetAt = reqs[r].limitedAt + WINDOW_MS
    /\ usage[reqs[r].licenseKey] # NoRec
    /\ usage[reqs[r].licenseKey].resetAt = reqs[r].limitedAt + WINDOW_MS
    /\ usage[reqs[r].licenseKey].count = 2


\* ------------------------------------------------------------------ C35
\* C35: an admitted request is never refunded.  The step in which its sets
\* fetch or its completion call fails leaves the usage table as it was, and
\* while the window of a key is open its record stays, with the same
\* resetAt and a count that does not decrease.
C35_NeverRefunded ==
  [][/\ \A r \in Reqs :
          (reqs[r].failure = "" /\ reqs'[r].failure # "") =>
            Admitted(r) /\ usage' = usage
     /\ \A k \in AllKeys :
          (usage[k] # NoRec /\ now < usage[k].resetAt) =>
            /\ usage'[k] # NoRec
            /\ usage'[k].resetAt = usage[k].resetAt
            /\ usage'[k].count >= usage[k].count]_vars

\* Within one window the sets fetch of one admitted request and the
\* completion call of another have failed, and both are still counted.
C35_Witness ==
  \E r, p \in Reqs :
    /\ reqs[r].failure = "sets" /\ reqs[p].failure = "completion"
    /\ reqs[p].pc = "done" /\ reqs[p].status = 500
    /\ reqs[r].licenseKey = TEST_KEY_1 /\ reqs[p].licenseKey = TEST_KEY_1
    /\ usage[TEST_KEY_1] # NoRec
    /\ usage[TEST_KEY_1].count = 2
    /\ now < usage[TEST_KEY_1].resetAt


\* ------------------------------------------------------------------ C33
\* The codes of sets that have an entity of positive score for query, and
\* the best score of the entities of one code.
PositiveCodes(query, sets) ==
  {sets[i].code : i \in {j \in 1..Len(sets) : EntityScore(query, sets[j]) >= 1}}
BestScore(query, sets, code) ==
  LET scores == {EntityScore(query, sets[i]) :
                   i \in {j \in 1..Len(sets) : sets[j].code = code}}
  IN  CHOOSE m \in scores : \A x \in scores : x <= m
\* Every entry of the result carries the best score of its code, and the
\* result has every code of positive score unless the limit cut it to 6.
BestScoreKept(query, sets) ==
  LET c == CandidatesOf[query, sets]
      codes == {c[j].code : j \in 1..Len(c)}
      positive == PositiveCodes(query, sets)
  IN  /\ \A j \in 1..Len(c) : c[j].score = BestScore(query, sets, c[j].code)
      /\ codes \subseteq positive
      /\ IF Cardinality(positive) <= 6 THEN codes = positive ELSE Len(c) = 6
BestScoreKeptOf ==
  [query \in AllQueries, sets \in Catalogs |-> BestScoreKept(query, sets)]
\* Some code of sets has two entities of different positive scores for
\* query, the better one first (TRUE) or second (FALSE) in the catalog.
BetterComes(first, query, sets) ==
  \E i, j \in 1..Len(sets) :
    /\ i < j /\ sets[i].code = sets[j].code
    /\ EntityScore(query, sets[i]) >= 1 /\ EntityScore(query, sets[j]) >= 1
    /\ IF first THEN EntityScore(query, sets[i]) > EntityScore(query, sets[j])
                ELSE EntityScore(query, sets[i]) < EntityScore(query, sets[j])
BetterComesOf ==
  [first \in BOOLEAN, query \in AllQueries, sets \in Catalogs |->
     BetterComes(first, query, sets)]

\* C33: in the resolver result a request gets, every code carries the
\* maximum score over all catalog entities of that code, and a code with an
\* entity of positive score is missing only when the limit cut the result.
C33_DedupKeepsBest ==
  [][\A r \in Reqs :
       Resolves(r) =>
         /\ reqs'[r].system.codes = CodesOf[reqs'[r].query, SETS_CACHE'.data]
         /\ BestScoreKeptOf[reqs'[r].query, SETS_CACHE'.data]]_vars

\* A request was resolved against a catalog in which one code has its better
\* entity first and another code its better entity second; both codes are in
\* the result.
C33_Witness ==
  \E r \in Reqs :
    /\ reqs[r].pc = "completion"
    /\ reqs[r].query = QueryElves
    /\ SETS_CACHE.data = SetsOf[PromosData]
    /\ BetterComesOf[TRUE, QueryElves, SETS_CACHE.data]
    /\ BetterComesOf[FALSE, QueryElves, SETS_CACHE.data]
    /\ reqs[r].system.codes = << <<"d","o","m">>, <<"d","m","u">> >>


\* ------------------------------------------------------------------ C32
\* The fetch of request r returns in this step.
FetchReturns(r) == reqs[r].pc = "fetchSets" /\ reqs'[r].pc = "completion"

\* C32: refreshes are not deduplicated.  A request that needs the catalog
\* and finds the cache empty or stale issues its own fetch, whether or not
\* another request's fetch is in flight; each fetch that returns overwrites
\* the cache, so the cache holds the catalog of the last one to return.
C32_RefreshesNotDeduplicated ==
  [][\A r \in Reqs :
       /\ ( /\ Starts(r) /\ reqs'[r].limiter = "admitted"
            /\ reqs'[r].query # <<>>
            /\ ExplicitCodeOf[reqs'[r].query] = <<>>
            /\ ~CacheFresh(SETS_CACHE, now) ) =>
            /\ reqs'[r].pc = "fetchSets"
            /\ reqs'[r].catalogFetches = 1
            /\ reqs'[r].fetchNow = now
       /\ FetchReturns(r) =>
            /\ SETS_CACHE'.data \in Catalogs
            /\ SETS_CACHE'.fetchedAt = reqs[r].fetchNow
            /\ reqs'[r].system.codes = CodesOf[reqs[r].query, SETS_CACHE'.data]]_vars

\* Two requests found the cache empty at the same instant and both fetched;
\* the first to return stored the Dominaria catalog and resolved against it,
\* the second one stored another catalog, which the cache now holds.
C32_Witness ==
  \E r, p \in Reqs :
    /\ r # p
    /\ reqs[r].pc = "completion" /\ reqs[p].pc = "completion"
    /\ reqs[r].catalogFetches = 1 /\ reqs[p].catalogFetches = 1
    /\ reqs[r].fetchNow = reqs[p].fetchNow
    /\ reqs[r].query = QueryMany /\ reqs[p].query = QueryMany
    /\ reqs[r].system.codes = CodesOf[QueryMany, SetsOf[DomData]]
    /\ SETS_CACHE.data = SetsOf[MastersData]
    /\ reqs[p].system.codes = CodesOf[QueryMany, SETS_CACHE.data]
    /\ reqs[p].system.codes # reqs[r].system.codes


\* ------------------------------------------------------------------ C36
\* C36: the fetchedAt of the sets cache never decreases: no cache write
\* stores a timestamp older than the one it replaces.
C36_FetchedAtMonotone ==
  [][SETS_CACHE'.fetchedAt >= SETS_CACHE.fetchedAt]_vars


\* ------------------------------------------------------------------ C34
\* The usage table as it would be had no sweep ever run: each key holds the
\* record its last admitted request stored (only admissions store records).
AdmittedOf(k) == {r \in Reqs : Admitted(r) /\ reqs[r].licenseKey = k}
Unswept ==
  [k \in AllKeys |->
     IF AdmittedOf(k) = {} THEN NoRec ELSE reqs[SetMax(AdmittedOf(k))].rec]

\* C34: the sweep is transparent to admission.  The table differs from the
\* unswept one only in records whose window has ended, and what the limiter
\* decides, records and reports for a request (admission, count, resetAt,
\* the headers with remaining and reset) is what it would decide on the
\* unswept table at the same time.
C34_SweepTransparent ==
  [][/\ \A k \in AllKeys :
          \/ usage[k] = Unswept[k]
          \/ usage[k] = NoRec /\ now >= Unswept[k].resetAt
     /\ \A r \in Reqs :
          (Starts(r) /\ reqs'[r].limiter # "none") =>
            LET k == reqs'[r].licenseKey
                lim == rateLimitPerLicense(k, Unswept, now)
            IN  /\ reqs'[r].limiter = IF lim.next THEN "admitted" ELSE "rejected"
                /\ reqs'[r].rec = lim.rec
                /\ reqs'[r].headers = lim.headers
                /\ ~lim.next => /\ reqs'[r].status = lim.status
                                /\ reqs'[r].body = lim.body
                /\ usage'[k] = lim.usage[k]]_vars

\* A key was admitted, its record was swept, and its next request found no
\* record and was admitted into a new window.
C34_Witness ==
  \E r, p \in Reqs :
    /\ r < p
    /\ reqs[r].licenseKey = reqs[p].licenseKey
    /\ Admitted(r) /\ Admitted(p)
    /\ reqs[p].stored = NoRec
    /\ reqs[p].rec = [count |-> 1, resetAt |-> reqs[p].limitedAt + WINDOW_MS]


\* ------------------------------------------------------------------ C37
\* The invocations of handleConvert that showed a syntax result.
Conversions == {c \in Calls : calls[c].outcome = "converted"}
Quiet == \A c \in Calls : calls[c].pc \in {"idle", "done"}
AtMostLimit == Cardinality(Conversions) <= FREE_SEARCH_LIMIT

TrialAnswered ==
  {c \in Calls : /\ calls[c].req \in Reqs
                 /\ reqs[calls[c].req].pc = "done"
                 /\ reqs[calls[c].req].licenseKey = FREE_TRIAL}

\* C38: a request the content script sends for a user without a license
\* (licenseKey 'FREE_TRIAL', non-empty query, searchCount below the limit)
\* passes the server's license check and is converted when the catalog and
\* the completion service answer: the server answers 200 and handleConvert
\* shows the syntax.
C38_FreeTrialConverted ==
  \A c \in TrialAnswered :
    /\ reqs[calls[c].req].status = 200
    /\ calls[c].pc \in {"set", "done"} => calls[c].outcome = "converted"

====
